---------------------------- MODULE Spec2Model ----------------------------
(***************************************************************************)
(* Model of the gacha_ocr record pipeline: the history merger              *)
(* (modules/batch_image2json.py), the name corrector                       *)
(* (modules/data_processor.py, modules/ocr_image2json.py) and the          *)
(* save-and-merge step that keeps the history folder.                      *)
(*                                                                         *)
(* Python lists are sequences; Python indices are kept 0-based in the      *)
(* operators that return indices (At(s, i) is s[i] of the code).           *)
(***************************************************************************)
EXTENDS Integers, Sequences, FiniteSets, TLC

VARIABLES
    file1,        \* merge_json_files: the RecordSet loaded from file1
    file2,        \* merge_json_files: the RecordSet loaded from file2
    output,       \* merge_json_files: content of output_file (Absent if none)
    raised,       \* merge_json_files: "pending", "none" or the error raised
    found,        \* merge_json_files: (start1, end1, start2, end2), once computed
    again,        \* merge_json_files(output_file, file2): Absent or its result
    disk,         \* history folder: file (named by its export second) -> content
    clock,        \* datetime.now() of the next export, in seconds
    last_run,     \* what the last save_and_merge_file call did
    name,         \* correct_recognized_name: the recognized string
    valid_names,  \* correct_recognized_name: the candidate set
    result,       \* correct_recognized_name: returned dict (or the raise)
    result2,      \* correct_recognized_name applied to the returned name
    rerun,        \* correct_recognized_name: the results of two processes
    ledger,       \* data/errors/errors.json: Absent or the list of ErrorRecords
    pipeline,     \* run_pipeline: where the current extraction run stands
    current_errors, \* BatchTab.current_errors: the list load_errors last read
    last_op,      \* the last ErrorEntryManager/cleaner call and what it did
    resolves,     \* the update_error_status calls made so far
    gacha_entries,  \* analyze_gacha_data: the entries, sorted by time
    idx,          \* analyze_gacha_data: the index of the next entry
    pool_stats,   \* analyze_gacha_data: pool name -> statistics so far
    results,      \* calculate_statistics: Absent or pool name -> figures
    printed,      \* analyze_gacha_data: the warnings printed so far
    line,         \* parse_single_line: the line of OCR text
    column_indices, \* parse_single_line: the columns of item and pool
    parsed,       \* parse_single_line: Absent or what the call gave
    word1,        \* calculate_edit_distance: the first string
    word2,        \* calculate_edit_distance: the second string
    distance      \* calculate_edit_distance: Absent or what the calls gave

vars == <<file1, file2, output, raised, found, again, disk, clock, last_run,
          name, valid_names, result, result2, rerun,
          ledger, pipeline, current_errors, last_op, resolves,
          gacha_entries, idx, pool_stats, results, printed,
          line, column_indices, parsed, word1, word2, distance>>

mergeVars == <<file1, file2, output, raised, found, again>>
storeVars == <<disk, clock, last_run>>
nameVars  == <<name, valid_names, result, result2, rerun>>
ledgerVars == <<ledger, pipeline, current_errors, last_op, resolves>>
statsVars == <<gacha_entries, idx, pool_stats, results, printed>>
parserVars == <<line, column_indices, parsed>>
distanceVars == <<word1, word2, distance>>
textVars == <<parserVars, distanceVars>>

-----------------------------------------------------------------------------
(* Bounds of the model *)

MaxLen1 == 5        \* longest data list of file1 in the merge inputs
MaxLen2 == 4        \* longest data list of file2 in the merge inputs
MaxRuns == 3        \* extraction runs that reach the export
MaxEntries == 4     \* most entries extracted by one run
MaxNameLen == 3     \* longest recognized name
MaxLedgerRuns == 2  \* extraction runs of the pipeline with its error ledger
MaxResolves == 2    \* resolutions the operator asks for
MaxPulls == 4       \* most pulls of one analysed history
MaxLeft == 5        \* most characters of a line before its date

-----------------------------------------------------------------------------
(* Generic helpers *)

\* an optional value: <<>> when there is none, <<v>> when there is
Absent == <<>>
Some(v) == <<v>>

Max(a, b) == IF a > b THEN a ELSE b
Min(a, b) == IF a < b THEN a ELSE b

\* s[i] with the 0-based index of the code
At(s, i) == s[i + 1]

\* s[a:b] of the code
Slice(s, a, b) == SubSeq(s, a + 1, b)

SeqsUpTo(S, n) == UNION {[1..k -> S] : k \in 0..n}

-----------------------------------------------------------------------------
(* RecordSet data *)

\* the (item, pool, time) triples of the entries
KeyList == <<[item |-> "x", pool |-> "p", time |-> 2],
             [item |-> "y", pool |-> "p", time |-> 2],
             [item |-> "x", pool |-> "q", time |-> 1]>>

Keys == {KeyList[n] : n \in 1..Len(KeyList)}

KeyRank(e) == CHOOSE n \in 1..Len(KeyList) : KeyList[n].item = e.item
                                              /\ KeyList[n].pool = e.pool
                                              /\ KeyList[n].time = e.time

Entry(key, v) == [item |-> key.item, pool |-> key.pool, time |-> key.time,
                  is_valid |-> v]

CHECK_KEYS == {"game_id", "uid", "timezone", "lang"}

MIN_OVERLAP_COUNT == 3

Info(g, u, tz, l, ts, n) ==
    [game_id |-> g, uid |-> u, timezone |-> tz, lang |-> l,
     export_timestamp |-> ts, total_entries |-> n]

-----------------------------------------------------------------------------
(* HistoryMerger: modules/batch_image2json.py *)

check_info_compatibility(info1, info2) ==
    \A key \in CHECK_KEYS : info1[key] = info2[key]

SameKey(e1, e2) ==
    /\ e1.time = e2.time
    /\ e1.pool = e2.pool
    /\ e1.item = e2.item

\* the while loop of find_overlapping_entries: k after the loop
RECURSIVE RunLength(_, _, _, _, _)
RunLength(data1, data2, i, j, k) ==
    IF /\ i + k < Len(data1)
       /\ j + k < Len(data2)
       /\ SameKey(At(data1, i + k), At(data2, j + k))
    THEN RunLength(data1, data2, i, j, k + 1)
    ELSE k

NotFound == <<-1, -1, -1, -1>>

\* variant of ScanFrom with the loops exchanged (j outer, i inner)
RECURSIVE ScanFromColumns(_, _, _, _)
ScanFromColumns(data1, data2, i, j) ==
    IF j >= Len(data2) THEN NotFound
    ELSE IF i >= Len(data1) THEN ScanFromColumns(data1, data2, 0, j + 1)
    ELSE IF /\ SameKey(At(data1, i), At(data2, j))
            /\ RunLength(data1, data2, i, j, 0) >= MIN_OVERLAP_COUNT
         THEN LET k == RunLength(data1, data2, i, j, 0)
              IN  <<i, i + k, j, j + k>>
         ELSE ScanFromColumns(data1, data2, i + 1, j)

\* the two for loops of find_overlapping_entries, from the pair (i, j) on
RECURSIVE ScanFrom(_, _, _, _)
ScanFrom(data1, data2, i, j) ==
    IF i >= Len(data1) THEN NotFound
    ELSE IF j >= Len(data2) THEN ScanFrom(data1, data2, i + 1, 0)
    ELSE IF /\ SameKey(At(data1, i), At(data2, j))
            /\ RunLength(data1, data2, i, j, 0) >= MIN_OVERLAP_COUNT
         THEN LET k == RunLength(data1, data2, i, j, 0)
              IN  <<i, i + k, j, j + k>>
         ELSE ScanFrom(data1, data2, i, j + 1)

find_overlapping_entries(data1, data2) == ScanFrom(data1, data2, 0, 0)

\* variant of MergedData that keeps both before parts and both after parts
MergedDataUnion(d1, d2, ov) ==
    LET before1 == Slice(d1, 0, ov[1])
        overlap == Slice(d1, ov[1], ov[2])
        after1  == Slice(d1, ov[2], Len(d1))
        before2 == Slice(d2, 0, ov[3])
        after2  == Slice(d2, ov[4], Len(d2))
    IN  before1 \o before2 \o overlap \o after1 \o after2

\* variant of MergedData that keeps file2's copy of the overlap
MergedDataOverlap2(d1, d2, ov) ==
    LET before1 == Slice(d1, 0, ov[1])
        overlap == Slice(d2, ov[3], ov[4])
        after1  == Slice(d1, ov[2], Len(d1))
        before2 == Slice(d2, 0, ov[3])
        after2  == Slice(d2, ov[4], Len(d2))
        before_merged == IF Len(before1) > Len(before2) THEN before1 ELSE before2
        after_merged  == IF Len(after1) > Len(after2) THEN after1 ELSE after2
    IN  before_merged \o overlap \o after_merged

\* the merged list of merge_json_files, given the overlap found
MergedData(d1, d2, ov) ==
    LET before1 == Slice(d1, 0, ov[1])
        overlap == Slice(d1, ov[1], ov[2])
        after1  == Slice(d1, ov[2], Len(d1))
        before2 == Slice(d2, 0, ov[3])
        after2  == Slice(d2, ov[4], Len(d2))
        before_merged == IF Len(before1) > Len(before2) THEN before1 ELSE before2
        after_merged  == IF Len(after1) > Len(after2) THEN after1 ELSE after2
    IN  before_merged \o overlap \o after_merged

\* the info block merge_json_files keeps: the later export's
LaterInfo(f1, f2) ==
    IF f2.info.export_timestamp > f1.info.export_timestamp
    THEN f2.info ELSE f1.info

\* variant of merge_json_files that looks for the overlap before it compares
\* the info blocks
merge_json_files_OverlapFirst(f1, f2) ==
    LET ov == find_overlapping_entries(f1.data, f2.data)
    IN  IF ov[1] = -1
        THEN [raised |-> "NoOverlapFound", found |-> Some(ov), saved |-> Absent]
        ELSE IF ~check_info_compatibility(f1.info, f2.info)
        THEN [raised |-> "IncompatibleSets", found |-> Some(ov), saved |-> Absent]
        ELSE [raised |-> "none", found |-> Some(ov),
              saved |-> Some([info |-> LaterInfo(f1, f2),
                              data |-> MergedData(f1.data, f2.data, ov)])]

\* merge_json_files(file1, file2, output_file): what it raises, the overlap
\* it found (Absent: not reached) and what it saves to output_file (Absent:
\* save_json_file is not reached)
merge_json_files(f1, f2) ==
    IF ~check_info_compatibility(f1.info, f2.info)
    THEN [raised |-> "IncompatibleSets", found |-> Absent, saved |-> Absent]
    ELSE LET ov == find_overlapping_entries(f1.data, f2.data)
         IN  IF ov[1] = -1
             THEN [raised |-> "NoOverlapFound", found |-> Some(ov),
                   saved |-> Absent]
             ELSE [raised |-> "none", found |-> Some(ov),
                   saved |-> Some([info |-> LaterInfo(f1, f2),
                                   data |-> MergedData(f1.data, f2.data, ov)])]

-----------------------------------------------------------------------------
(* Inputs of a direct merge_json_files call *)

HomeInfo(ts, n) == Info("ark", "u1", 8, "zh-cn", ts, n)

RecordSet(info, data) == [info |-> info, data |-> data]

\* a list that uses the triples in the order of KeyList: every list is such
\* a list up to a renaming of the triples, and the merge only compares them
InFirstUseOrder(data) ==
    \A n \in 1..Len(data) :
        \/ KeyRank(data[n]) = 1
        \/ \E m \in 1..(n - 1) : KeyRank(data[m]) >= KeyRank(data[n]) - 1

\* file1 is an older, fully valid history; file2 a later export whose
\* entries are still flagged (is_valid takes no part in the comparison)
MergeData1 ==
    {d \in SeqsUpTo({Entry(k, TRUE) : k \in Keys}, MaxLen1) : InFirstUseOrder(d)}
MergeData2 == SeqsUpTo({Entry(k, FALSE) : k \in Keys}, MaxLen2)

\* same identity, every pair of data lists
InitMergeData ==
    /\ \E d1 \in MergeData1 : file1 = RecordSet(HomeInfo(1, Len(d1)), d1)
    /\ \E d2 \in MergeData2 : file2 = RecordSet(HomeInfo(2, Len(d2)), d2)

\* every identity of file2, data lists of MIN_OVERLAP_COUNT entries
InitMergeInfo ==
    /\ \E d1 \in {d \in MergeData1 : Len(d) = MIN_OVERLAP_COUNT} :
          file1 = RecordSet(HomeInfo(1, Len(d1)), d1)
    /\ \E d2 \in [1..MIN_OVERLAP_COUNT -> {Entry(k, FALSE) : k \in Keys}],
          g \in {"ark", "gi"}, u \in {"u1", "u2"}, tz \in {8, 9},
          l \in {"zh-cn", "en"}, ts \in {0, 2} :
          file2 = RecordSet(Info(g, u, tz, l, ts, Len(d2)), d2)

IdleStore == disk = <<>> /\ clock = 0 /\ last_run = Absent
IdleNames == name = <<>> /\ valid_names = {} /\ result = Absent /\ result2 = Absent
             /\ rerun = Absent
IdleLedger == ledger = Absent /\ pipeline = Absent /\ current_errors = <<>>
              /\ last_op = Absent /\ resolves = 0
IdleParser == line = <<>> /\ column_indices = Absent /\ parsed = Absent
IdleDistance == word1 = <<>> /\ word2 = <<>> /\ distance = Absent
IdleStats == gacha_entries = <<>> /\ idx = 0 /\ pool_stats = <<>>
             /\ results = Absent /\ printed = <<>>
IdleMerge == file1 = Absent /\ file2 = Absent /\ output = Absent
             /\ raised = "idle" /\ found = Absent /\ again = Absent

InitMerge ==
    /\ InitMergeData \/ InitMergeInfo
    /\ output = Absent
    /\ raised = "pending"
    /\ found = Absent
    /\ again = Absent
    /\ IdleStore
    /\ IdleNames
    /\ IdleLedger
    /\ IdleStats
    /\ IdleParser
    /\ IdleDistance

\* one call merge_json_files(file1, file2, output_file)
MergeJsonFiles ==
    /\ raised = "pending"
    /\ LET r == merge_json_files(file1, file2)
       IN  /\ raised' = r.raised
           /\ found' = r.found
           /\ output' = IF r.saved = Absent THEN output ELSE r.saved
    /\ UNCHANGED <<file1, file2, again, storeVars, nameVars, ledgerVars, statsVars, textVars>>

\* the merged file is merged with file2 once more
MergeAgain ==
    /\ raised = "none"
    /\ again = Absent
    /\ again' = Some(merge_json_files(output[1], file2))
    /\ UNCHANGED <<file1, file2, output, raised, found, storeVars, nameVars,
                   ledgerVars, statsVars, textVars>>

NextMerge == MergeJsonFiles \/ MergeAgain

SpecMerge == InitMerge /\ [][NextMerge]_vars

-----------------------------------------------------------------------------
(* Export and save-and-merge: modules/batch_image2json.py *)

\* insert e behind every entry whose time is not older (keeps the order of
\* entries of equal time, as Python's stable sort does with reverse=True)
RECURSIVE InsertNewestFirst(_, _)
InsertNewestFirst(sorted, e) ==
    IF sorted = <<>> THEN <<e>>
    ELSE IF Head(sorted).time >= e.time
         THEN <<Head(sorted)>> \o InsertNewestFirst(Tail(sorted), e)
         ELSE <<e>> \o sorted

\* sorted(all_entries, key=time, reverse=True)
RECURSIVE SortNewestFirst(_)
SortNewestFirst(entries) ==
    IF entries = <<>> THEN <<>>
    ELSE InsertNewestFirst(SortNewestFirst(SubSeq(entries, 1, Len(entries) - 1)),
                           entries[Len(entries)])

\* create_export_data: the entries newest first under a fresh info block
create_export_data(all_entries, uid, now) ==
    LET sorted_entries == SortNewestFirst(all_entries)
    IN  [info |-> Info("ark", uid, 8, "zh-cn", now, Len(sorted_entries)),
         data |-> sorted_entries]

Paths == 1..MaxRuns

\* find_compatible_history_files: the existing files whose info is compatible
\* with the new file's
find_compatible_history_files(fs, new_path, existing_files) ==
    {f \in existing_files :
        check_info_compatibility(fs[new_path][1].info, fs[f][1].info)}

\* get_latest_history_file: the file of the largest export_timestamp above 0
\* (the first such file of the list when several share it); Absent if none
get_latest_history_file(fs, files) ==
    LET cands == {f \in files : fs[f][1].info.export_timestamp > 0}
    IN  IF cands = {} THEN {Absent}
        ELSE {Some(f) : f \in {g \in cands :
                 \A h \in cands : fs[h][1].info.export_timestamp
                                    <= fs[g][1].info.export_timestamp}}

\* variant of save_and_merge_file that deletes the old file whether or not
\* the merge succeeded
save_and_merge_file_AlwaysDelete(fs, export_data, latest) ==
    LET output_file == export_data.info.export_timestamp
        fs1 == [fs EXCEPT ![output_file] = Some(export_data)]
    IN  IF latest = Absent
        THEN [disk |-> fs1, raised |-> "no-merge", returned |-> output_file]
        ELSE LET r == merge_json_files(fs1[latest[1]][1], fs1[output_file][1])
             IN  [disk |-> [fs1 EXCEPT ![output_file] =
                                IF r.raised = "none" THEN r.saved ELSE @,
                                       ![latest[1]] = Absent],
                  raised |-> r.raised, returned |-> output_file]

\* save_and_merge_file after the new file is written and the latest compatible
\* file chosen (Absent: there is none): the folder it leaves, what the merge
\* raised and the path it returns
save_and_merge_file(fs, export_data, latest) ==
    LET output_file == export_data.info.export_timestamp
        fs1 == [fs EXCEPT ![output_file] = Some(export_data)]
    IN  IF latest = Absent
        THEN [disk |-> fs1, raised |-> "no-merge", returned |-> output_file]
        ELSE LET r == merge_json_files(fs1[latest[1]][1], fs1[output_file][1])
             IN  IF r.raised = "none"
                 THEN [disk |-> [fs1 EXCEPT ![output_file] = r.saved,
                                            ![latest[1]] = Absent],
                       raised |-> "none", returned |-> output_file]
                 ELSE [disk |-> fs1, raised |-> r.raised,
                       returned |-> output_file]

\* the cleaned entries one run extracts: for the account u1 any list long
\* enough to overlap with another, in any order; for a second account u2
\* one such list
RunEntries(uid) ==
    IF uid = "u1"
    THEN {d \in SeqsUpTo({Entry(k, TRUE) : k \in {q \in Keys : q.item = "x"}},
                         MaxEntries) : Len(d) >= MIN_OVERLAP_COUNT}
    ELSE {[n \in 1..MIN_OVERLAP_COUNT |-> Entry(KeyList[1], TRUE)]}

InitStore ==
    /\ disk = [f \in Paths |-> Absent]
    /\ clock = 1
    /\ last_run = Absent
    /\ IdleMerge
    /\ IdleNames
    /\ IdleLedger
    /\ IdleStats
    /\ IdleParser
    /\ IdleDistance

\* run_pipeline from create_export_data on: export all_entries at second
\* `clock`, save the file and merge the latest compatible history file into it
ExportAndMerge ==
    /\ clock <= MaxRuns
    /\ \E uid \in {"u1", "u2"} : \E all_entries \in RunEntries(uid) :
         LET export_data == create_export_data(all_entries, uid, clock)
             output_file == export_data.info.export_timestamp
             fs1 == [disk EXCEPT ![output_file] = Some(export_data)]
             existing_files == {f \in Paths : f # output_file /\ fs1[f] # Absent}
             compatible_files ==
                 find_compatible_history_files(fs1, output_file, existing_files)
         IN  \E latest \in get_latest_history_file(fs1, compatible_files) :
               LET r == save_and_merge_file(disk, export_data, latest)
               IN  /\ disk' = r.disk
                   /\ last_run' = Some([export |-> export_data,
                                        latest |-> latest,
                                        raised |-> r.raised,
                                        returned |-> r.returned])
    /\ clock' = clock + 1
    /\ UNCHANGED <<mergeVars, nameVars, ledgerVars, statsVars, textVars>>

NextStore == ExportAndMerge

Spec == InitStore /\ [][NextStore]_vars

-----------------------------------------------------------------------------
(* Properties of the history merger, checked under SpecMerge *)

KeyOf(e) == [item |-> e.item, pool |-> e.pool, time |-> e.time]
KeysOf(data) == [n \in 1..Len(data) |-> KeyOf(data[n])]

\* the number of consecutive positions from (i, j) on that carry the same
\* triple, stated without the loop
GreedyRun(d1, d2, i, j) ==
    CHOOSE k \in 0..Min(Len(d1) - i, Len(d2) - j) :
        /\ \A d \in 0..(k - 1) : KeyOf(At(d1, i + d)) = KeyOf(At(d2, j + d))
        /\ \/ k = Min(Len(d1) - i, Len(d2) - j)
           \/ KeyOf(At(d1, i + k)) # KeyOf(At(d2, j + k))

\* the pairs that start a run of at least three
Qualifying(d1, d2) ==
    {p \in (0..(Len(d1) - 1)) \X (0..(Len(d2) - 1)) :
        GreedyRun(d1, d2, p[1], p[2]) >= 3}

ScanBefore(p, q) == p[1] < q[1] \/ (p[1] = q[1] /\ p[2] < q[2])

SameIdentity ==
    /\ file1.info.game_id = file2.info.game_id
    /\ file1.info.uid = file2.info.uid
    /\ file1.info.timezone = file2.info.timezone
    /\ file1.info.lang = file2.info.lang

\* C1: round trip. Whenever file1 = P ++ R and file2 = R ++ S with the same
\* identity and at least three entries in R, the merge succeeds and its data
\* is P ++ R ++ S, triple by triple, for all such inputs (repeated triples
\* included).
C1_RoundTrip ==
    (raised # "pending" /\ SameIdentity) =>
        \A n \in 3..Min(Len(file1.data), Len(file2.data)) :
            KeysOf(Slice(file1.data, Len(file1.data) - n, Len(file1.data)))
                = KeysOf(Slice(file2.data, 0, n))
            => /\ raised = "none"
               /\ output # Absent
               /\ KeysOf(output[1].data)
                    = KeysOf(file1.data)
                        \o KeysOf(Slice(file2.data, n, Len(file2.data)))

\* C2: the overlap found is the run at the first pair, in scan order (i
\* outer, j inner), whose greedy run has at least three entries, with that
\* run's whole length; a longer run at a later pair is not chosen; and no
\* overlap is reported (NoOverlapFound) exactly when no pair starts a run of
\* at least three.
C2_FirstQualifyingRun ==
    found # Absent =>
        LET Q == Qualifying(file1.data, file2.data)
        IN  /\ (Q = {}) <=> (found[1] = <<-1, -1, -1, -1>>)
            /\ (Q = {}) <=> (raised = "NoOverlapFound")
            /\ Q # {} =>
                 \E p \in Q :
                    /\ \A q \in Q : q = p \/ ScanBefore(p, q)
                    /\ LET k == GreedyRun(file1.data, file2.data, p[1], p[2])
                       IN  found[1] = <<p[1], p[1] + k, p[2], p[2] + k>>

\* C2 witness: the run found has three entries although a later pair starts
\* a longer one
C2_Witness ==
    /\ found # Absent
    /\ found[1][1] # -1
    /\ found[1][2] - found[1][1] = 3
    /\ \E q \in Qualifying(file1.data, file2.data) :
          GreedyRun(file1.data, file2.data, q[1], q[2]) > 3

\* C3: the merged data is before ++ overlap ++ after: the overlap is file1's
\* slice, before is the longer of the two parts before the overlap and after
\* the longer of the two parts after it, so the merged length is
\* max(i, j) + k + max(|A|-i-k, |B|-j-k).
C3_LongerSideWins ==
    (raised = "none") =>
        LET A  == file1.data
            B  == file2.data
            i  == found[1][1]
            j  == found[1][3]
            k  == found[1][2] - found[1][1]
            ra == Len(A) - i - k
            rb == Len(B) - j - k
            M  == output[1].data
            b  == Max(i, j)
        IN  /\ Len(M) = b + k + Max(ra, rb)
            /\ i > j => Slice(M, 0, b) = Slice(A, 0, i)
            /\ j > i => Slice(M, 0, b) = Slice(B, 0, j)
            /\ Slice(M, b, b + k) = Slice(A, i, i + k)
            /\ ra > rb => Slice(M, b + k, Len(M)) = Slice(A, i + k, Len(A))
            /\ rb > ra => Slice(M, b + k, Len(M)) = Slice(B, j + k, Len(B))

\* C3 witness: a merge that takes its before part from file1 and its after
\* part from file2
C3_Witness ==
    /\ raised = "none"
    /\ found[1][1] > found[1][3]
    /\ Len(file2.data) - found[1][4] > Len(file1.data) - found[1][2]

\* C4: the merge fails with IncompatibleSets exactly when the info blocks
\* differ in game_id, uid, timezone or lang, whether or not the data lists
\* overlap, and a failed merge leaves the output file as it was.
C4_IncompatibleFirst ==
    (raised # "pending") =>
        /\ (raised = "IncompatibleSets") <=> ~SameIdentity
        /\ raised \in {"IncompatibleSets", "NoOverlapFound"} => output = Absent

\* C4 witness: incompatible sets whose data do not overlap either
C4_Witness ==
    /\ raised = "IncompatibleSets"
    /\ Qualifying(file1.data, file2.data) = {}
    /\ output = Absent

\* the pairs at which a maximal run of at least three starts
WindowStarts(d1, d2) ==
    {p \in Qualifying(d1, d2) :
        \/ p[1] = 0
        \/ p[2] = 0
        \/ KeyOf(At(d1, p[1] - 1)) # KeyOf(At(d2, p[2] - 1))}

UniqueWindow(d1, d2) == Cardinality(WindowStarts(d1, d2)) = 1

\* C6: when file1 and file2 have a single qualifying overlap window, merging
\* the merged set with file2 once more succeeds and gives the same data.
C6_RemergeSame ==
    (again # Absent /\ UniqueWindow(file1.data, file2.data)) =>
        /\ again[1].raised = "none"
        /\ again[1].saved[1].data = output[1].data

\* C6 witness: a re-merge after a merge that took parts from both files
C6_Witness ==
    /\ again # Absent
    /\ UniqueWindow(file1.data, file2.data)
    /\ found[1][1] > found[1][3]
    /\ Len(file2.data) - found[1][4] > Len(file1.data) - found[1][2]

-----------------------------------------------------------------------------
(* Properties of the history folder, checked under Spec *)

NewestFirst(data) ==
    \A n \in 1..(Len(data) - 1) : data[n].time >= data[n + 1].time

\* C5: every RecordSet of the history folder, freshly exported or merged, has
\* its data sorted by time, newest first.
C5_SortedNewestFirst ==
    \A f \in Paths : disk[f] # Absent => NewestFirst(disk[f][1].data)

\* C5 witness: a merged file, longer than the export it was made from, that
\* holds entries of different times
C5_Witness ==
    /\ last_run # Absent
    /\ last_run[1].raised = "none"
    /\ LET data == disk[last_run[1].returned][1].data
       IN  /\ Len(data) > Len(last_run[1].export.data)
           /\ data[1].time # data[Len(data)].time

\* C7: when the merge with the latest compatible history file fails, the old
\* file stays as it was, the new file holds the freshly exported data, no
\* other file changes and the run returns the new file's path.
C7_FailedMergeKeepsBoth ==
    [][(clock' # clock
        /\ last_run'[1].raised \in {"IncompatibleSets", "NoOverlapFound"})
       => LET run == last_run'[1]
              old == run.latest[1]
              new == run.export.info.export_timestamp
          IN  /\ disk[old] # Absent
              /\ disk'[old] = disk[old]
              /\ disk'[new] = Some(run.export)
              /\ run.returned = new
              /\ \A f \in Paths \ {old, new} : disk'[f] = disk[f]]_vars

\* C7 witness: a run whose merge with the latest compatible file found no
\* overlap
C7_Witness ==
    /\ last_run # Absent
    /\ last_run[1].latest # Absent
    /\ last_run[1].raised = "NoOverlapFound"

-----------------------------------------------------------------------------
(* NameCorrector: modules/data_processor.py, modules/ocr_image2json.py *)

Chars == {"a", "b"}

Min3(a, b, c) == Min(a, Min(b, c))

\* variant of FillRow in which a substitution costs nothing
RECURSIVE FillRow_FreeSubstitution(_, _, _, _, _)
FillRow_FreeSubstitution(previous_row, current_row, c1, s2, j) ==
    IF j >= Len(s2) THEN current_row
    ELSE LET insertions    == At(previous_row, j + 1) + 1
             deletions     == At(current_row, j) + 1
             substitutions == At(previous_row, j)
         IN  FillRow_FreeSubstitution(previous_row,
                     Append(current_row,
                            Min3(insertions, deletions, substitutions)),
                     c1, s2, j + 1)

\* the inner loop of calculate_edit_distance: current_row once j has run
\* over s2
RECURSIVE FillRow(_, _, _, _, _)
FillRow(previous_row, current_row, c1, s2, j) ==
    IF j >= Len(s2) THEN current_row
    ELSE LET insertions    == At(previous_row, j + 1) + 1
             deletions     == At(current_row, j) + 1
             substitutions == At(previous_row, j)
                                + (IF c1 # At(s2, j) THEN 1 ELSE 0)
         IN  FillRow(previous_row,
                     Append(current_row,
                            Min3(insertions, deletions, substitutions)),
                     c1, s2, j + 1)

\* the outer loop of calculate_edit_distance: previous_row once i has run
\* over s1
RECURSIVE LastRow(_, _, _, _)
LastRow(previous_row, s1, s2, i) ==
    IF i >= Len(s1) THEN previous_row
    ELSE LastRow(FillRow(previous_row, <<i + 1>>, At(s1, i), s2, 0),
                 s1, s2, i + 1)

\* calculate_edit_distance once the longer string comes first
DistanceLongFirst(s1, s2) ==
    IF Len(s2) = 0 THEN Len(s1)
    ELSE LET row == LastRow([n \in 1..(Len(s2) + 1) |-> n - 1], s1, s2, 0)
         IN  row[Len(row)]

calculate_edit_distance(s1, s2) ==
    IF Len(s1) < Len(s2) THEN DistanceLongFirst(s2, s1)
    ELSE DistanceLongFirst(s1, s2)

\* max_distance_ratio = 0.5 as a fraction
RatioNum == 1
RatioDen == 2

Returned(n, v) == [raised |-> "none", returned |-> Some([name |-> n, is_valid |-> v])]
Raised(e) == [raised |-> e, returned |-> Absent]

\* min(valid_names, key=distance): a candidate of the least distance, the
\* first of them in the set's iteration order, which the code does not fix
BestMatches(n, valid) ==
    {x \in valid : \A y \in valid :
        calculate_edit_distance(n, x) <= calculate_edit_distance(n, y)}

\* variant of correct_recognized_name that accepts only below the threshold
correct_recognized_name_Strict(n, valid) ==
    IF n \in valid THEN {Returned(n, TRUE)}
    ELSE IF valid = {} THEN {Raised("ValueError")}
    ELSE {IF calculate_edit_distance(n, best_match) * RatioDen < Len(n) * RatioNum
          THEN Returned(best_match, TRUE)
          ELSE Returned(n, FALSE) : best_match \in BestMatches(n, valid)}

\* variant of correct_recognized_name whose exact-match branch returns the
\* dict of the failure branch
correct_recognized_name_ExactInvalid(n, valid) ==
    IF n \in valid THEN {Returned(n, FALSE)}
    ELSE IF valid = {} THEN {Raised("ValueError")}
    ELSE {IF calculate_edit_distance(n, best_match) * RatioDen <= Len(n) * RatioNum
          THEN Returned(best_match, TRUE)
          ELSE Returned(n, FALSE) : best_match \in BestMatches(n, valid)}

\* correct_recognized_name of data_processor.py: every result it can give.
\* min() of an empty set raises ValueError.
correct_recognized_name(n, valid) ==
    IF n \in valid THEN {Returned(n, TRUE)}
    ELSE IF valid = {} THEN {Raised("ValueError")}
    ELSE {IF calculate_edit_distance(n, best_match) * RatioDen <= Len(n) * RatioNum
          THEN Returned(best_match, TRUE)
          ELSE Returned(n, FALSE) : best_match \in BestMatches(n, valid)}

\* correct_recognized_name of ocr_image2json.py, which returns early on an
\* empty candidate set
correct_recognized_name_legacy(n, valid) ==
    IF n \in valid THEN {Returned(n, TRUE)}
    ELSE IF valid = {} THEN {Returned(n, FALSE)}
    ELSE {IF calculate_edit_distance(n, best_match) * RatioDen <= Len(n) * RatioNum
          THEN Returned(best_match, TRUE)
          ELSE Returned(n, FALSE) : best_match \in BestMatches(n, valid)}

Names == SeqsUpTo(Chars, MaxNameLen)

\* the names a catalog may hold
Catalog == {<<"a">>, <<"a", "b">>, <<"b", "a">>, <<"b", "b">>,
            <<"a", "a", "b">>, <<"b", "a", "b">>}

CandidateSets == SUBSET Catalog

InitNames ==
    /\ name \in Names
    /\ valid_names \in CandidateSets
    /\ result = Absent
    /\ result2 = Absent
    /\ rerun = Absent
    /\ IdleMerge
    /\ IdleStore
    /\ IdleLedger
    /\ IdleStats
    /\ IdleParser
    /\ IdleDistance

\* correct_recognized_name(name, valid_names) of data_processor.py
CorrectName ==
    /\ result = Absent
    /\ \E r \in correct_recognized_name(name, valid_names) : result' = Some(r)
    /\ UNCHANGED <<name, valid_names, result2, rerun, mergeVars, storeVars,
                   ledgerVars, statsVars, textVars>>

\* correct_recognized_name(name, valid_names) of ocr_image2json.py
CorrectNameLegacy ==
    /\ result = Absent
    /\ \E r \in correct_recognized_name_legacy(name, valid_names) :
          result' = Some(r)
    /\ UNCHANGED <<name, valid_names, result2, rerun, mergeVars, storeVars,
                   ledgerVars, statsVars, textVars>>

\* the returned name is corrected once more against the same set
CorrectAgain ==
    /\ result # Absent
    /\ result[1].raised = "none"
    /\ result2 = Absent
    /\ \E r \in correct_recognized_name(result[1].returned[1].name, valid_names) :
          result2' = Some(r)
    /\ UNCHANGED <<name, valid_names, result, rerun, mergeVars, storeVars,
                   ledgerVars, statsVars, textVars>>

\* correct_recognized_name(name, valid_names) of data_processor.py called in
\* two processes: the same string and the same set of strings, which each
\* process iterates in its own order (str hashes are salted per process)
CorrectRerun ==
    /\ rerun = Absent
    /\ \E r1, r2 \in correct_recognized_name(name, valid_names) :
          rerun' = Some(<<r1, r2>>)
    /\ UNCHANGED <<name, valid_names, result, result2, mergeVars, storeVars,
                   ledgerVars, statsVars, textVars>>

NextNames == CorrectName \/ CorrectNameLegacy \/ CorrectAgain \/ CorrectRerun

SpecNames == InitNames /\ [][NextNames]_vars

-----------------------------------------------------------------------------
(* Properties of the name corrector, checked under SpecNames *)

\* the Levenshtein distance by its recurrence on the last characters
RECURSIVE Levenshtein(_, _)
Levenshtein(s, t) ==
    IF Len(s) = 0 THEN Len(t)
    ELSE IF Len(t) = 0 THEN Len(s)
    ELSE LET s0 == SubSeq(s, 1, Len(s) - 1)
             t0 == SubSeq(t, 1, Len(t) - 1)
         IN  Min3(Levenshtein(s0, t) + 1,
                  Levenshtein(s, t0) + 1,
                  Levenshtein(s0, t0) + (IF s[Len(s)] = t[Len(t)] THEN 0 ELSE 1))

\* the least edit distance from n to a member of the non-empty set V
LeastDistance(n, V) ==
    CHOOSE d \in {Levenshtein(n, x) : x \in V} :
        \A x \in V : d <= Levenshtein(n, x)

\* C8: a name of the candidate set is returned unchanged and valid, and when
\* a correction is valid, correcting the returned name again returns the same
\* name, valid.
C8_Idempotent ==
    /\ (result # Absent /\ name \in valid_names)
         => result[1] = [raised |-> "none",
                         returned |-> <<[name |-> name, is_valid |-> TRUE]>>]
    /\ (result2 # Absent /\ result[1].returned[1].is_valid)
         => result2[1] = [raised |-> "none",
                          returned |-> <<[name |-> result[1].returned[1].name,
                                          is_valid |-> TRUE]>>]

\* C8 witness: a misread name was corrected to another name, and correcting
\* that name again has returned
C8_Witness ==
    /\ result2 # Absent
    /\ result[1].returned[1].is_valid
    /\ result[1].returned[1].name # name

\* C9: for a name outside a non-empty candidate set, with d the least edit
\* distance to a candidate: if d <= floor(len(name) / 2) the result is a
\* candidate at distance d, valid; otherwise it is the name unchanged,
\* invalid. An empty name is never corrected.
C9_Threshold ==
    (result # Absent /\ name \notin valid_names /\ valid_names # {}) =>
        LET d == LeastDistance(name, valid_names)
            r == result[1]
        IN  /\ r.raised = "none"
            /\ d <= Len(name) \div 2 =>
                 /\ r.returned[1].is_valid
                 /\ r.returned[1].name \in valid_names
                 /\ Levenshtein(name, r.returned[1].name) = d
            /\ d > Len(name) \div 2 =>
                 r.returned[1] = [name |-> name, is_valid |-> FALSE]
            /\ name = <<>> => ~r.returned[1].is_valid

\* C9 witness: a name of odd length accepted exactly at the threshold
C9_Witness ==
    /\ result # Absent
    /\ name \notin valid_names
    /\ valid_names # {}
    /\ Len(name) = 3
    /\ LeastDistance(name, valid_names) = 1
    /\ result[1].returned[1].is_valid

\* C10: with an empty candidate set the corrector returns the name unchanged
\* with is_valid = false and raises nothing.
C10_EmptySetInvalid ==
    (result # Absent /\ valid_names = {}) =>
        result[1] = [raised |-> "none",
                     returned |-> <<[name |-> name, is_valid |-> FALSE]>>]

\* C11: the corrector is deterministic. Two invocations with the same string
\* and the same set of candidate strings return the same {name, is_valid},
\* also when several candidates tie at the least distance.
C11_Deterministic ==
    rerun # Absent => rerun[1][1] = rerun[1][2]

-----------------------------------------------------------------------------
(* Timestamp repair: modules/data_processor.py *)

\* A time string is a sequence of tokens: a run of digits, [k |-> "n"], of
\* value v written with w digits, or one other character: "-", "/", ".",
\* ":", "T", " ", "u" (one of the date units of line 32) or "x" (any other
\* character).
Num(v, w) == [k |-> "n", v |-> v, w |-> w]
Sym(c) == [k |-> c, v |-> 0, w |-> 0]

RECURSIVE Pow10(_)
Pow10(w) == IF w = 0 THEN 1 ELSE 10 * Pow10(w - 1)

\* ts.strip(), on the left and on the right
RECURSIVE LStrip(_)
LStrip(s) == IF s # <<>> /\ Head(s).k = " " THEN LStrip(Tail(s)) ELSE s

RECURSIVE RStrip(_)
RStrip(s) ==
    IF s # <<>> /\ s[Len(s)].k = " " THEN RStrip(SubSeq(s, 1, Len(s) - 1)) ELSE s

\* the replace and re.sub calls of lines 31-33 on one character: what it
\* becomes (nothing, for a character that is removed)
ReplaceChar(t) ==
    IF t.k = "T" THEN <<Sym(" ")>>
    ELSE IF t.k \in {".", "/", "u"} THEN <<Sym("-")>>
    ELSE IF t.k = "x" THEN <<>>
    ELSE <<t>>

\* append a token to a string: digits that come to stand side by side are
\* one run of digits
Glue(s, t) ==
    IF s # <<>> /\ s[Len(s)].k = "n" /\ t.k = "n"
    THEN LET a == s[Len(s)]
         IN  SubSeq(s, 1, Len(s) - 1)
                \o <<Num(a.v * Pow10(t.w) + t.v, a.w + t.w)>>
    ELSE Append(s, t)

RECURSIVE ReplaceAll(_, _)
ReplaceAll(done, rest) ==
    IF rest = <<>> THEN done
    ELSE LET r == ReplaceChar(Head(rest))
         IN  ReplaceAll(IF r = <<>> THEN done ELSE Glue(done, r[1]), Tail(rest))

\* the days of month m of year y, as datetime checks them
DaysIn(y, m) ==
    IF m \in {4, 6, 9, 11} THEN 30
    ELSE IF m # 2 THEN 31
    ELSE IF (y % 4 = 0 /\ y % 100 # 0) \/ y % 400 = 0 THEN 29 ELSE 28

\* one strptime directive against a run of digits
FieldOk(directive, t) ==
    /\ t.k = "n"
    /\ CASE directive = "Y" -> t.w = 4 /\ t.v >= 1
         [] directive = "m" -> t.w \in {1, 2} /\ t.v \in 1..12
         [] directive = "d" -> t.w \in {1, 2} /\ t.v \in 1..31
         [] directive = "H" -> t.w \in {1, 2} /\ t.v \in 0..23
         [] directive = "M" -> t.w \in {1, 2} /\ t.v \in 0..59
         [] directive = "S" -> t.w \in {1, 2} /\ t.v \in 0..61

\* does the whole of s match the format? A space of the format matches one
\* or more spaces; every other character matches itself.
RECURSIVE MatchesFormat(_, _)
MatchesFormat(s, fmt) ==
    IF fmt = <<>> THEN s = <<>>
    ELSE IF s = <<>> THEN FALSE
    ELSE IF Head(fmt) = " "
         THEN /\ Head(s).k = " "
              /\ \/ MatchesFormat(Tail(s), Tail(fmt))
                 \/ MatchesFormat(Tail(s), fmt)
    ELSE IF Head(fmt) \in {"-", "/", ":"}
         THEN Head(s).k = Head(fmt) /\ MatchesFormat(Tail(s), Tail(fmt))
    ELSE FieldOk(Head(fmt), Head(s)) /\ MatchesFormat(Tail(s), Tail(fmt))

DATE_FORMATS ==
    << <<"Y", "-", "m", "-", "d", " ", "H", ":", "M", ":", "S">>,
       <<"Y", "-", "m", "-", "d", " ", "H", ":", "M">>,
       <<"Y", "-", "m", "-", "d">>,
       <<"Y", "/", "m", "/", "d", " ", "H", ":", "M", ":", "S">>,
       <<"Y", "/", "m", "/", "d", " ", "H", ":", "M">>,
       <<"Y", "/", "m", "/", "d">> >>

\* the values of the runs of digits of s, in order
Fields(s) == SelectSeq(s, LAMBDA t : t.k = "n")

\* dt.strftime("%Y-%m-%d %H:%M:%S"): the canonical string, every field at its
\* fixed width. It is written as the number that orders as these strings do
\* (years counted from 2024).
strftime(y, m, d, H, M, S) ==
    ((((((y - 2024) * 13 + m) * 32 + d) * 24 + H) * 60 + M) * 60) + S

\* datetime.strptime(s, fmt) then strftime: Absent for the ValueError
ParseWith(s, fmt) ==
    IF ~MatchesFormat(s, fmt) THEN Absent
    ELSE LET f == Fields(s)
             H == IF Len(f) >= 4 THEN f[4].v ELSE 0
             M == IF Len(f) >= 5 THEN f[5].v ELSE 0
             S == IF Len(f) >= 6 THEN f[6].v ELSE 0
         IN  IF f[3].v > DaysIn(f[1].v, f[2].v) \/ S > 59 THEN Absent
             ELSE Some(strftime(f[1].v, f[2].v, f[3].v, H, M, S))

\* the for loop of fix_timestamp_format from format n on
RECURSIVE TryFormats(_, _)
TryFormats(s, n) ==
    IF n > Len(DATE_FORMATS) THEN Absent
    ELSE IF ParseWith(s, DATE_FORMATS[n]) # Absent
         THEN ParseWith(s, DATE_FORMATS[n])
         ELSE TryFormats(s, n + 1)

\* variant of fix_timestamp_format that falls back to the start of 2024 when
\* no format matches
fix_timestamp_format_Fallback(ts) ==
    IF ts = <<>> THEN Some(strftime(2024, 1, 1, 0, 0, 0))
    ELSE LET r == TryFormats(ReplaceAll(<<>>, RStrip(LStrip(ts))), 1)
         IN  IF r = Absent THEN Some(strftime(2024, 1, 1, 0, 0, 0)) ELSE r

\* fix_timestamp_format(ts): Absent for None
fix_timestamp_format(ts) ==
    IF ts = <<>> THEN Absent
    ELSE TryFormats(ReplaceAll(<<>>, RStrip(LStrip(ts))), 1)

-----------------------------------------------------------------------------
(* ErrorLedger: modules/ocr_error_manager.py (the manager of the refactored  *)
(* pipeline) and modules/ocr_image2json.py (the manager the correction tab   *)
(* of the UI constructs)                                                     *)

\* variant of clear_errors that leaves the file in place
clear_errors_Keep(led) == led

\* clear_errors: the ledger file is unlinked if it exists
clear_errors(led) == Absent

\* variant of add_error_entry that starts a new list at every call
add_error_entry_Overwrite(led, entry, item_result, pool_result, image_path, position, now) ==
    Some(<<[original |-> [item |-> entry.item, pool |-> entry.pool,
                          time |-> entry.time],
            errors |-> [item_invalid |-> ~item_result.is_valid,
                        pool_invalid |-> ~pool_result.is_valid,
                        time_invalid |-> entry.time = Absent],
            context |-> [image_path |-> image_path, position |-> position,
                         json_path |-> Absent],
            correction_status |-> "pending",
            timestamp |-> now,
            corrected |-> Absent,
            corrected_at |-> Absent]>>)

\* add_error_entry: the ledger file after the call. entry.time is Absent for
\* None; the keys json_path, corrected and corrected_at are not yet in the
\* record (Absent).
add_error_entry(led, entry, item_result, pool_result, image_path, position, now) ==
    LET error_entry ==
            [original |-> [item |-> entry.item, pool |-> entry.pool,
                           time |-> entry.time],
             errors |-> [item_invalid |-> ~item_result.is_valid,
                         pool_invalid |-> ~pool_result.is_valid,
                         time_invalid |-> entry.time = Absent],
             context |-> [image_path |-> image_path, position |-> position,
                          json_path |-> Absent],
             correction_status |-> "pending",
             timestamp |-> now,
             corrected |-> Absent,
             corrected_at |-> Absent]
        errors == IF led = Absent THEN <<>> ELSE led[1]
    IN  Some(Append(errors, error_entry))

\* variant of get_pending_errors that returns every record
get_pending_errors_All(led) ==
    IF led = Absent THEN <<>> ELSE led[1]

\* get_pending_errors: the records still pending, in file order
get_pending_errors(led) ==
    IF led = Absent THEN <<>>
    ELSE SelectSeq(led[1], LAMBDA e : e.correction_status = "pending")

RecordsOf(led) == IF led = Absent THEN <<>> ELSE led[1]

\* the indices of the ledger records with the identity of error_entry
MatchingRecords(errors, error_entry) ==
    {i \in 1..Len(errors) :
        /\ errors[i].original = error_entry.original
        /\ errors[i].timestamp = error_entry.timestamp}

\* the record once the status (and the corrected fields, if given) are set
Resolved(e, new_status, corrected_data, now) ==
    IF corrected_data = Absent
    THEN [e EXCEPT !.correction_status = new_status]
    ELSE [e EXCEPT !.correction_status = new_status,
                   !.corrected = corrected_data,
                   !.corrected_at = Some(now)]

\* the inner loop of update_error_status: every entry of the data file with
\* the original triple takes the corrected fields and becomes valid
Propagated(record_set, original, corrected) ==
    [record_set EXCEPT !.data =
        [n \in 1..Len(record_set.data) |->
            IF /\ record_set.data[n].item = original.item
               /\ record_set.data[n].pool = original.pool
               /\ Some(record_set.data[n].time) = original.time
            THEN [item |-> corrected.item, pool |-> corrected.pool,
                  time |-> corrected.time, is_valid |-> TRUE]
            ELSE record_set.data[n]]]

\* a data file that is there but whose text json.load cannot decode
\* ("undecodable"), or that cannot be opened or written ("unwritable")
Damaged(fault) == Some([fault |-> fault])

IsDamaged(file, fault) ==
    /\ file # Absent
    /\ "fault" \in DOMAIN file[1]
    /\ file[1].fault = fault

\* the loop of update_error_status from record i on: whether a record was
\* updated, the list in memory and the history folder. A data file that
\* cannot be decoded makes the loop go on with the next record (`continue`),
\* past `updated = True`; any other failure on the data file is logged.
RECURSIVE UpdateFrom(_, _, _, _, _, _, _)
UpdateFrom(errors, fs, error_entry, new_status, corrected_data, now, i) ==
    IF i > Len(errors)
    THEN [updated |-> FALSE, errors |-> errors, disk |-> fs]
    ELSE IF i \notin MatchingRecords(errors, error_entry)
    THEN UpdateFrom(errors, fs, error_entry, new_status, corrected_data, now,
                    i + 1)
    ELSE LET e == errors[i]
             errors1 == [errors EXCEPT ![i] =
                            Resolved(e, new_status, corrected_data, now)]
             json_path == e.context.json_path
             located == /\ corrected_data # Absent
                        /\ json_path # Absent
                        /\ fs[json_path[1]] # Absent
         IN  IF ~located
             THEN [updated |-> TRUE, errors |-> errors1, disk |-> fs]
             ELSE IF IsDamaged(fs[json_path[1]], "undecodable")
             THEN UpdateFrom(errors1, fs, error_entry, new_status,
                             corrected_data, now, i + 1)
             ELSE IF IsDamaged(fs[json_path[1]], "unwritable")
             THEN [updated |-> TRUE, errors |-> errors1, disk |-> fs]
             ELSE [updated |-> TRUE, errors |-> errors1,
                   disk |-> [fs EXCEPT ![json_path[1]] =
                                Some(Propagated(@[1], error_entry.original,
                                                corrected_data[1]))]]

\* variant of update_error_status that gives up when the data file cannot be
\* located
update_error_status_NeedsFile(led, fs, error_entry, new_status, corrected_data, now) ==
    IF led = Absent
    THEN [raised |-> "FileNotFoundError", ledger |-> led, disk |-> fs]
    ELSE LET hits == MatchingRecords(led[1], error_entry)
             lost == \E i \in hits :
                        \/ led[1][i].context.json_path = Absent
                        \/ fs[led[1][i].context.json_path[1]] = Absent
             r == UpdateFrom(led[1], fs, error_entry, new_status,
                             corrected_data, now, 1)
         IN  IF corrected_data # Absent /\ lost
             THEN [raised |-> "none", ledger |-> led, disk |-> fs]
             ELSE [raised |-> "none",
                   ledger |-> IF r.updated THEN Some(r.errors) ELSE led,
                   disk |-> r.disk]

\* update_error_status of ocr_error_manager.py: what it raises, the ledger
\* file and the history folder after the call. The ledger file is opened
\* without a check that it exists, and written only if a record was updated.
update_error_status(led, fs, error_entry, new_status, corrected_data, now) ==
    IF led = Absent
    THEN [raised |-> "FileNotFoundError", ledger |-> led, disk |-> fs]
    ELSE LET r == UpdateFrom(led[1], fs, error_entry, new_status,
                             corrected_data, now, 1)
         IN  [raised |-> "none",
              ledger |-> IF r.updated THEN Some(r.errors) ELSE led,
              disk |-> r.disk]

\* update_error_status of ocr_image2json.py: it returns when there is no
\* ledger file and never opens a data file
update_error_status_legacy(led, fs, error_entry, new_status, corrected_data, now) ==
    IF led = Absent
    THEN [raised |-> "none", ledger |-> led, disk |-> fs]
    ELSE LET errors == led[1]
             hits == MatchingRecords(errors, error_entry)
         IN  IF hits = {}
             THEN [raised |-> "none", ledger |-> led, disk |-> fs]
             ELSE LET i == CHOOSE h \in hits : \A g \in hits : h <= g
                  IN  [raised |-> "none",
                       ledger |-> Some([errors EXCEPT ![i] =
                            Resolved(errors[i], new_status, corrected_data, now)]),
                       disk |-> fs]

-----------------------------------------------------------------------------
(* EntryCleaner and run_pipeline: modules/data_processor.py,                 *)
(* modules/batch_image2json.py, modules/ocr_image2json.py                    *)

StartsWith(s, p) == Len(p) <= Len(s) /\ SubSeq(s, 1, Len(p)) = p
EndsWith(s, p) == Len(p) <= Len(s) /\ SubSeq(s, Len(s) - Len(p) + 1, Len(s)) = p

\* re.sub(pattern, "", cleaned) for a pattern "^p" of the prefix list and a
\* pattern "p$" of the suffix list (the names hold no white space to strip)
RECURSIVE RemovePrefixes(_, _)
RemovePrefixes(cleaned, patterns) ==
    IF patterns = <<>> THEN cleaned
    ELSE RemovePrefixes(IF StartsWith(cleaned, Head(patterns))
                        THEN SubSeq(cleaned, Len(Head(patterns)) + 1, Len(cleaned))
                        ELSE cleaned,
                        Tail(patterns))

RECURSIVE RemoveSuffixes(_, _)
RemoveSuffixes(cleaned, patterns) ==
    IF patterns = <<>> THEN cleaned
    ELSE RemoveSuffixes(IF EndsWith(cleaned, Head(patterns))
                        THEN SubSeq(cleaned, 1, Len(cleaned) - Len(Head(patterns)))
                        ELSE cleaned,
                        Tail(patterns))

clean_name_string(n, prefix_patterns, suffix_patterns) ==
    RemoveSuffixes(RemovePrefixes(n, prefix_patterns), suffix_patterns)

\* the corrector of the pipeline in use
Corrector(impl, n, valid) ==
    IF impl = "legacy" THEN correct_recognized_name_legacy(n, valid)
    ELSE correct_recognized_name(n, valid)

\* what one call leaves: the exception, the returned entry (Absent for None)
\* and the ledger file
Cleaned(exception, entry, led) ==
    [raised |-> exception, returned |-> entry, ledger |-> led]

\* variant of CleanWith that looks at the time before it records the error
CleanWith_TimeFirst(entry, item_result, pool_result, led, error_manager, image_path, position, now) ==
    LET has_errors == ~item_result.is_valid \/ ~pool_result.is_valid
        time == fix_timestamp_format(entry.time)
        fixed == [item |-> item_result.name, pool |-> pool_result.name,
                  time |-> time]
    IN  IF time = Absent THEN Cleaned("none", Absent, led)
        ELSE Cleaned("none",
                     Some([item |-> fixed.item, pool |-> fixed.pool,
                           time |-> time[1],
                           is_valid |-> item_result.is_valid
                                          /\ pool_result.is_valid]),
                     IF error_manager /\ has_errors
                     THEN add_error_entry(led, fixed, item_result, pool_result,
                                          image_path, position, now)
                     ELSE led)

\* lines 123-143 of clean_and_correct_entry, once both names are corrected
CleanWith(entry, item_result, pool_result, led, error_manager, image_path, position, now) ==
    LET has_errors == ~item_result.is_valid \/ ~pool_result.is_valid
        time == fix_timestamp_format(entry.time)
        fixed == [item |-> item_result.name, pool |-> pool_result.name,
                  time |-> time]
        led1 == IF error_manager /\ has_errors
                THEN add_error_entry(led, fixed, item_result, pool_result,
                                     image_path, position, now)
                ELSE led
    IN  IF time = Absent THEN Cleaned("none", Absent, led1)
        ELSE Cleaned("none",
                     Some([item |-> fixed.item, pool |-> fixed.pool,
                           time |-> time[1],
                           is_valid |-> item_result.is_valid
                                          /\ pool_result.is_valid]),
                     led1)

\* clean_and_correct_entry: every outcome it can have. error_manager is
\* whether a manager is passed.
clean_and_correct_entry(impl, entry, valid_items, valid_pools, clean_config, led, error_manager, image_path, position, now) ==
    LET item == IF clean_config.enable_clean_name
                THEN clean_name_string(entry.item, clean_config.prefix_patterns,
                                       clean_config.suffix_patterns)
                ELSE entry.item
        pool == IF clean_config.enable_clean_name
                THEN clean_name_string(entry.pool, clean_config.prefix_patterns,
                                       clean_config.suffix_patterns)
                ELSE entry.pool
    IN  {IF ir.raised # "none" THEN Cleaned(ir.raised, Absent, led)
         ELSE IF pr.raised # "none" THEN Cleaned(pr.raised, Absent, led)
         ELSE CleanWith(entry, ir.returned[1], pr.returned[1], led,
                        error_manager, image_path, position, now) :
            ir \in Corrector(impl, item, valid_items),
            pr \in Corrector(impl, pool, valid_pools)}

\* the raw strings of one OCR'd line
RawEntry(item, pool, time) == [item |-> item, pool |-> pool, time |-> time]

\* "2024-1-2 3:04:05", "2024/1/2 3:04" and "2024-13-2"
GoodTime == <<Num(2024, 4), Sym("-"), Num(1, 1), Sym("-"), Num(2, 1), Sym(" "),
              Num(3, 1), Sym(":"), Num(4, 2), Sym(":"), Num(5, 2)>>
SlashTime == <<Num(2024, 4), Sym("/"), Num(1, 1), Sym("/"), Num(2, 1), Sym(" "),
               Num(3, 1), Sym(":"), Num(4, 2)>>
BadTime == <<Num(2024, 4), Sym("-"), Num(13, 2), Sym("-"), Num(2, 1)>>

\* what OCR and the line parser give for the screenshots: 1 is a page read
\* well (one name misread within the threshold), 2 a page with a misread item,
\* a misread pool and two times out of range, 3 a page on which OCR fails,
\* 4 a page with the same pull twice, misread alike
OcrEntries(image) ==
    CASE image = 1 ->
           <<RawEntry(<<"a", "b">>, <<"a", "b">>, GoodTime),
             RawEntry(<<"a", "b">>, <<"a", "b">>, GoodTime),
             RawEntry(<<"a", "a", "b">>, <<"a", "b">>, GoodTime)>>
      [] image = 2 ->
           <<RawEntry(<<"b", "a">>, <<"a", "b">>, SlashTime),
             RawEntry(<<"a", "b">>, <<"b", "a">>, BadTime),
             RawEntry(<<"a", "b">>, <<"a", "b">>, BadTime)>>
      [] image = 4 ->
           <<RawEntry(<<"b", "a">>, <<"a", "b">>, SlashTime),
             RawEntry(<<"b", "a">>, <<"a", "b">>, SlashTime)>>
      [] OTHER -> <<>>

\* get_image_paths: the image lists a run may be given
ImageSources == {<<>>, <<2>>, <<1, 2>>, <<3>>, <<4>>}

\* the raw entries of the images, each with its image and its position
RECURSIVE RawQueue(_)
RawQueue(image_paths) ==
    IF image_paths = <<>> THEN <<>>
    ELSE LET raw_entries == OcrEntries(Head(image_paths))
         IN  [i \in 1..Len(raw_entries) |->
                 [image_path |-> Head(image_paths), position |-> i - 1,
                  entry |-> raw_entries[i]]]
             \o RawQueue(Tail(image_paths))

\* the name data and the cleaning configuration of the game (an empty pool
\* list is given to the pipeline whose corrector has no branch for it)
ItemCatalog == {<<"a", "b">>}
PoolCatalogs == {{<<"a", "b">>}, {}}
CleanConfigs ==
    {[enable_clean_name |-> b, prefix_patterns |-> << <<"b">> >>,
      suffix_patterns |-> << <<"a", "a">> >>] : b \in BOOLEAN}

\* what the operator may type into the correction dialog
CorrectedData ==
    {[item |-> <<"a", "b">>, pool |-> <<"a", "b">>,
      time |-> strftime(2024, 1, 2, 3, 4, 0)]}

Implementations == {"module", "legacy"}

InitLedger ==
    /\ pipeline \in {p \in [impl : Implementations, clean_config : CleanConfigs,
                            valid_items : {ItemCatalog},
                            valid_pools : PoolCatalogs,
                            phase : {"idle"}, error_handling : {FALSE},
                            queue : {<<>>}, all_entries : {<<>>},
                            calls : {<<>>}, runs : {0}] :
                        p.valid_pools # {} \/ p.impl = "module"}
    /\ ledger = Absent
    /\ current_errors = <<>>
    /\ last_op = Absent
    /\ resolves = 0
    /\ disk = [f \in Paths |-> Absent]
    /\ clock = 1
    /\ last_run = Absent
    /\ IdleMerge
    /\ IdleNames
    /\ IdleStats
    /\ IdleParser
    /\ IdleDistance

\* what an operation on the ledger leaves for the record: the call, its
\* argument and the exception
Op(op, arg, exception) ==
    Some([op |-> op, arg |-> arg, raised |-> exception])

\* the exceptions that reach the except clause of run_pipeline: the
\* FileNotFoundError of load_game_config / load_name_data and the ValueError
\* of the name correction
RaisedInPipeline == {"ConfigurationMissing", "ValueError"}

\* variant of Caught that lets the exception leave run_pipeline
Caught_Reraised(exception) == exception

\* `except Exception` of run_pipeline: the exception is logged and None is
\* returned; what leaves run_pipeline
Caught(exception) == "none"

\* how a run ended: what it exported and merged, why it stopped (raised),
\* what it returned and the exception its caller sees
RunEnded(export, latest, exception, returned) ==
    Some([export |-> export, latest |-> latest, raised |-> exception,
          returned |-> returned,
          propagated |-> IF exception \in RaisedInPipeline
                         THEN Caught(exception) ELSE "none"])

\* run_pipeline up to get_image_paths (lines 329-366): the configuration is
\* loaded, the ledger cleared if error handling is on, the images listed
StartRun ==
    /\ pipeline.phase = "idle"
    /\ pipeline.runs < MaxLedgerRuns
    /\ \E config_found \in BOOLEAN, enable_error_handling \in BOOLEAN,
          image_paths \in ImageSources :
         IF ~config_found
         THEN /\ pipeline' = [pipeline EXCEPT !.runs = @ + 1]
              /\ last_run' = RunEnded(Absent, Absent, "ConfigurationMissing", Absent)
              /\ clock' = clock + 1
              /\ UNCHANGED <<ledger, last_op>>
         ELSE /\ ledger' = IF enable_error_handling THEN clear_errors(ledger)
                           ELSE ledger
              /\ last_op' = Op("start", [error_handling |-> enable_error_handling],
                               "none")
              /\ IF image_paths = <<>>
                 THEN /\ pipeline' = [pipeline EXCEPT !.runs = @ + 1,
                                         !.error_handling = enable_error_handling,
                                         !.all_entries = <<>>, !.calls = <<>>]
                      /\ last_run' = RunEnded(Absent, Absent, "NoImages", Absent)
                      /\ clock' = clock + 1
                 ELSE /\ pipeline' = [pipeline EXCEPT !.phase = "cleaning",
                                         !.error_handling = enable_error_handling,
                                         !.queue = RawQueue(image_paths),
                                         !.all_entries = <<>>, !.calls = <<>>]
                      /\ UNCHANGED <<last_run, clock>>
    /\ UNCHANGED <<disk, current_errors, resolves, mergeVars, nameVars, statsVars, textVars>>

\* process_single_image, one raw entry: clean_and_correct_entry on the next
\* entry of the images. An exception ends the run (lines 408-412).
CleanEntry ==
    /\ pipeline.phase = "cleaning"
    /\ pipeline.queue # <<>>
    /\ LET q == Head(pipeline.queue)
           now == <<clock, Len(pipeline.calls) + 1>>
       IN  \E o \in clean_and_correct_entry(pipeline.impl, q.entry,
                        pipeline.valid_items, pipeline.valid_pools,
                        pipeline.clean_config, ledger, pipeline.error_handling,
                        q.image_path, q.position, now) :
             /\ ledger' = o.ledger
             /\ last_op' = Op("clean", [entry |-> q.entry, returned |-> o.returned,
                                         image_path |-> q.image_path,
                                         position |-> q.position, now |-> now],
                              o.raised)
             /\ IF o.raised # "none"
                THEN /\ pipeline' = [pipeline EXCEPT !.phase = "idle",
                                        !.queue = <<>>, !.runs = @ + 1]
                     /\ last_run' = RunEnded(Absent, Absent, o.raised, Absent)
                     /\ clock' = clock + 1
                ELSE /\ pipeline' = [pipeline EXCEPT
                            !.queue = Tail(@),
                            !.all_entries = IF o.returned = Absent THEN @
                                            ELSE Append(@, o.returned[1]),
                            !.calls = IF o.ledger = ledger THEN @
                                      ELSE Append(@, [image_path |-> q.image_path,
                                                      position |-> q.position])]
                     /\ UNCHANGED <<last_run, clock>>
    /\ UNCHANGED <<disk, current_errors, resolves, mergeVars, nameVars, statsVars, textVars>>

\* lines 393-398 of batch_image2json.run_pipeline: every record of the ledger
\* gets the path of the final file
WithJsonPath(led, final_file) ==
    Some([n \in 1..Len(led[1]) |->
            [led[1][n] EXCEPT !.context.json_path = Some(final_file)]])

\* run_pipeline from line 373 on: no entry ends the run; otherwise the export
\* is saved and merged, and the refactored pipeline writes the path of the
\* final file into the ledger when records are pending
FinishRun ==
    /\ pipeline.phase = "cleaning"
    /\ pipeline.queue = <<>>
    /\ IF pipeline.all_entries = <<>>
       THEN /\ last_run' = RunEnded(Absent, Absent, "NoEntries", Absent)
            /\ UNCHANGED <<disk, ledger, last_op>>
       ELSE LET export_data == create_export_data(pipeline.all_entries, "u1", clock)
                output_file == export_data.info.export_timestamp
                fs1 == [disk EXCEPT ![output_file] = Some(export_data)]
                existing_files == {f \in Paths : f # output_file /\ fs1[f] # Absent}
                compatible_files ==
                    find_compatible_history_files(fs1, output_file, existing_files)
            IN  \E latest \in get_latest_history_file(fs1, compatible_files) :
                  LET r == save_and_merge_file(disk, export_data, latest)
                  IN  /\ disk' = r.disk
                      /\ last_run' = RunEnded(Some(export_data), latest, r.raised,
                                              Some(r.returned))
                      /\ IF /\ pipeline.error_handling
                            /\ pipeline.impl = "module"
                            /\ Len(get_pending_errors(ledger)) > 0
                         THEN /\ ledger' = WithJsonPath(ledger, r.returned)
                              /\ last_op' = Op("json_path", [final_file |-> r.returned],
                                               "none")
                         ELSE UNCHANGED <<ledger, last_op>>
    /\ pipeline' = [pipeline EXCEPT !.phase = "idle", !.runs = @ + 1]
    /\ clock' = clock + 1
    /\ UNCHANGED <<current_errors, resolves, mergeVars, nameVars, statsVars, textVars>>

\* BatchTab.load_errors: the list of the correction tab is read anew
LoadErrors ==
    /\ pipeline.phase = "idle"
    /\ current_errors' = get_pending_errors(ledger)
    /\ last_op' = Op("pending", [returned |-> get_pending_errors(ledger)], "none")
    /\ UNCHANGED <<ledger, pipeline, resolves, storeVars, mergeVars, nameVars,
                   statsVars, textVars>>

\* the two resolutions an operator can ask for
Resolutions ==
    {[new_status |-> "ignored", corrected_data |-> Absent]}
    \cup {[new_status |-> "corrected", corrected_data |-> Some(c)] :
            c \in CorrectedData}

\* BatchTab.correct_error and BatchTab.ignore_error on a row of the list:
\* update_error_status of ocr_image2json.py, then load_errors
ResolveInTab ==
    /\ pipeline.phase = "idle"
    /\ resolves < MaxResolves
    /\ resolves' = resolves + 1
    /\ \E row \in 1..Len(current_errors), res \in Resolutions :
         LET r == update_error_status_legacy(ledger, disk, current_errors[row],
                        res.new_status, res.corrected_data, clock)
         IN  /\ ledger' = r.ledger
             /\ disk' = r.disk
             /\ current_errors' = get_pending_errors(r.ledger)
             /\ last_op' = Op("resolve", [manager |-> "legacy",
                                           error_entry |-> current_errors[row],
                                           new_status |-> res.new_status,
                                           corrected_data |-> res.corrected_data,
                                           fault |-> "none"],
                              r.raised)
    /\ UNCHANGED <<pipeline, clock, last_run, mergeVars, nameVars, statsVars, textVars>>

\* how the data files may fail while update_error_status runs
Faults == {"none", "undecodable", "unwritable"}

\* the history folder as update_error_status finds it under the fault
FolderUnder(fs, fault) ==
    [f \in DOMAIN fs |->
        IF fault = "none" \/ fs[f] = Absent THEN fs[f] ELSE Damaged(fault)]

\* update_error_status of ocr_error_manager.py, called with a record that an
\* earlier get_pending_errors returned; the data files may be out of order
\* for the time of the call
UpdateErrorStatus ==
    /\ pipeline.phase = "idle"
    /\ resolves < MaxResolves
    /\ resolves' = resolves + 1
    /\ \E row \in 1..Len(current_errors), res \in Resolutions, fault \in Faults :
         LET r == update_error_status(ledger, FolderUnder(disk, fault),
                        current_errors[row], res.new_status,
                        res.corrected_data, clock)
         IN  /\ fault # "none" =>
                    /\ res.corrected_data # Absent
                    /\ \E i \in MatchingRecords(RecordsOf(ledger), current_errors[row]) :
                          /\ ledger[1][i].context.json_path # Absent
                          /\ disk[ledger[1][i].context.json_path[1]] # Absent
             /\ ledger' = r.ledger
             /\ disk' = IF fault = "none" THEN r.disk ELSE disk
             /\ last_op' = Op("resolve", [manager |-> "module",
                                           error_entry |-> current_errors[row],
                                           new_status |-> res.new_status,
                                           corrected_data |-> res.corrected_data,
                                           fault |-> fault],
                              r.raised)
    /\ UNCHANGED <<pipeline, current_errors, clock, last_run, mergeVars,
                   nameVars, statsVars, textVars>>

NextLedger ==
    \/ StartRun
    \/ CleanEntry
    \/ FinishRun
    \/ LoadErrors
    \/ ResolveInTab
    \/ UpdateErrorStatus

SpecLedger == InitLedger /\ [][NextLedger]_vars

-----------------------------------------------------------------------------
(* Properties of the entry cleaner and the ledger, checked under SpecLedger *)

\* a name is valid when it is a candidate or a candidate lies within the
\* threshold; no name is valid against an empty set
NameIsValid(n, V) ==
    \/ n \in V
    \/ V # {} /\ 2 * LeastDistance(n, V) <= Len(n)

\* the name the corrector is given: the raw name, cleaned if cleaning is on
CleanedName(n) ==
    IF pipeline.clean_config.enable_clean_name
    THEN clean_name_string(n, pipeline.clean_config.prefix_patterns,
                           pipeline.clean_config.suffix_patterns)
    ELSE n

\* the step is one call of clean_and_correct_entry
IsCleanStep ==
    /\ pipeline.phase = "cleaning"
    /\ pipeline.queue # <<>>
    /\ pipeline' # pipeline

\* C12: the cleaner returns nothing exactly when the time cannot be
\* normalized, whatever the names are; every other entry is returned, with
\* is_valid = (item valid and pool valid), and the call raises nothing.
C12_DroppedIffNoTime ==
    [][IsCleanStep =>
        LET q == Head(pipeline.queue)
            has_time == fix_timestamp_format(q.entry.time) # Absent
            out == last_op'[1]
        IN  /\ out.raised = "none"
            /\ (out.arg.returned = Absent) <=> ~has_time
            /\ has_time =>
                 out.arg.returned[1].is_valid
                    = (/\ NameIsValid(CleanedName(q.entry.item), pipeline.valid_items)
                       /\ NameIsValid(CleanedName(q.entry.pool), pipeline.valid_pools))
      ]_vars

\* C13: with a ledger, cleaning an entry appends exactly one record when the
\* item or the pool is invalid and none when both are valid; the record holds
\* the item and pool as cleaned and corrected, the normalized time (none if it
\* cannot be normalized), the image and the position, and it is appended also
\* when the entry is then dropped for its time.
C13_OneRecordPerInvalidEntry ==
    [][(IsCleanStep /\ pipeline.error_handling) =>
        LET q == Head(pipeline.queue)
            item == CleanedName(q.entry.item)
            pool == CleanedName(q.entry.pool)
            item_ok == NameIsValid(item, pipeline.valid_items)
            pool_ok == NameIsValid(pool, pipeline.valid_pools)
            before == RecordsOf(ledger)
            after == RecordsOf(ledger')
        IN  IF item_ok /\ pool_ok THEN ledger' = ledger
            ELSE /\ Len(after) = Len(before) + 1
                 /\ SubSeq(after, 1, Len(before)) = before
                 /\ LET r == after[Len(after)]
                    IN  /\ IF item_ok THEN r.original.item \in pipeline.valid_items
                                      ELSE r.original.item = item
                        /\ IF pool_ok THEN r.original.pool \in pipeline.valid_pools
                                      ELSE r.original.pool = pool
                        /\ r.original.time = fix_timestamp_format(q.entry.time)
                        /\ r.errors.item_invalid = ~item_ok
                        /\ r.errors.pool_invalid = ~pool_ok
                        /\ r.context.image_path = q.image_path
                        /\ r.context.position = q.position
                        /\ r.correction_status = "pending"
      ]_vars

\* C14: after clear() and n record() calls of a run the ledger holds exactly
\* the n records, in call order and all pending, and each record() call
\* leaves the records stored before it as they were.
C14_AppendOnly ==
    /\ [](pipeline # Absent /\ pipeline.phase = "cleaning"
            /\ pipeline.error_handling
          => LET recs == RecordsOf(ledger)
             IN  /\ Len(recs) = Len(pipeline.calls)
                 /\ \A n \in 1..Len(recs) :
                      /\ recs[n].correction_status = "pending"
                      /\ recs[n].context.image_path = pipeline.calls[n].image_path
                      /\ recs[n].context.position = pipeline.calls[n].position)
    /\ [][(IsCleanStep /\ pipeline.error_handling) =>
            LET before == RecordsOf(ledger)
                after == RecordsOf(ledger')
            IN  /\ Len(after) \in {Len(before), Len(before) + 1}
                /\ SubSeq(after, 1, Len(before)) = before]_vars

\* C14 witness: the second record of a run is stored, in a run that began
\* with a ledger left by an earlier run
C14_Witness ==
    /\ pipeline.phase = "cleaning"
    /\ pipeline.error_handling
    /\ pipeline.runs >= 1
    /\ Len(pipeline.calls) = 2
    /\ Len(current_errors) > 0

\* the step is one call of get_pending_errors
IsLoadStep ==
    /\ pipeline.phase = "idle"
    /\ last_op' # Absent
    /\ last_op'[1].op = "pending"
    /\ last_op' # last_op \/ current_errors' # current_errors

\* the indices of the pending records
PendingIndices(recs) ==
    {i \in 1..Len(recs) : recs[i].correction_status = "pending"}

\* list is the pending records of recs, in the order of recs
IsPendingPart(list, recs) ==
    /\ Len(list) = Cardinality(PendingIndices(recs))
    /\ \A i \in PendingIndices(recs) :
          list[Cardinality({j \in PendingIndices(recs) : j <= i})] = recs[i]

\* C15: pending() returns exactly the pending records, in ledger order, and
\* changes nothing; it returns the empty list when there is no ledger; and a
\* record that is corrected or ignored stays so as long as it is in the
\* ledger, so no later pending() returns it.
C15_PendingOnly ==
    /\ [][IsLoadStep =>
            /\ IsPendingPart(last_op'[1].arg.returned, RecordsOf(ledger))
            /\ current_errors' = last_op'[1].arg.returned
            /\ ledger = Absent => last_op'[1].arg.returned = <<>>
            /\ ledger' = ledger
            /\ disk' = disk]_vars
    /\ [][\A i \in 1..Len(RecordsOf(ledger)) :
            RecordsOf(ledger)[i].correction_status # "pending" =>
                \/ \A j \in 1..Len(RecordsOf(ledger')) :
                      RecordsOf(ledger')[j].timestamp
                          # RecordsOf(ledger)[i].timestamp
                \/ /\ i <= Len(RecordsOf(ledger'))
                   /\ RecordsOf(ledger')[i].timestamp = RecordsOf(ledger)[i].timestamp
                   /\ RecordsOf(ledger')[i].correction_status # "pending"]_vars

\* C15 witness: pending() has returned some but not all records of the ledger
C15_Witness ==
    /\ last_op # Absent
    /\ last_op[1].op = "pending"
    /\ Len(last_op[1].arg.returned) > 0
    /\ Len(last_op[1].arg.returned) < Len(RecordsOf(ledger))

\* the step is one call of update_error_status
IsResolveStep == resolves' = resolves + 1

\* the file the run that emitted the record exported (the record's timestamp
\* is taken in the run whose export carries the same second)
OriginOf(r) == r.timestamp[1]

HasTriple(e, original) ==
    /\ e.item = original.item
    /\ e.pool = original.pool
    /\ Some(e.time) = original.time

\* C16: in the correction tab, resolving a record of the ledger as corrected
\* (a) stores the status and the corrected fields in the record, (b) gives
\* the corrected fields and is_valid = true to the entry of the originating
\* RecordSet file that carries the record's original triple, and (c) leaves
\* every other record of the ledger as it was.
C16_CorrectionReachesRecordSet ==
    [][(/\ IsResolveStep
        /\ last_op'[1].arg.manager = "legacy"
        /\ last_op'[1].arg.new_status = "corrected"
        /\ MatchingRecords(RecordsOf(ledger), last_op'[1].arg.error_entry) # {}
        /\ disk[OriginOf(last_op'[1].arg.error_entry)] # Absent)
       => LET r == last_op'[1].arg.error_entry
              c == last_op'[1].arg.corrected_data[1]
              hits == MatchingRecords(RecordsOf(ledger), r)
              before == disk[OriginOf(r)][1].data
              after == disk'[OriginOf(r)][1].data
          IN  /\ \A i \in hits :
                    /\ RecordsOf(ledger')[i].correction_status = "corrected"
                    /\ RecordsOf(ledger')[i].corrected = Some(c)
              /\ Len(after) = Len(before)
              /\ \A n \in 1..Len(before) :
                    HasTriple(before[n], r.original) =>
                        after[n] = [item |-> c.item, pool |-> c.pool,
                                    time |-> c.time, is_valid |-> TRUE]
              /\ Len(RecordsOf(ledger')) = Len(RecordsOf(ledger))
              /\ \A i \in 1..Len(RecordsOf(ledger)) :
                    i \notin hits => RecordsOf(ledger')[i] = RecordsOf(ledger)[i]
      ]_vars

\* C17: a resolve whose record is in no ledger (none has its identity, or
\* there is no ledger file any more) raises nothing and changes neither the
\* ledger nor a RecordSet file.
C17_UnknownRecordHarmless ==
    [][(/\ IsResolveStep
        /\ MatchingRecords(RecordsOf(ledger), last_op'[1].arg.error_entry) = {})
       => /\ last_op'[1].raised = "none"
          /\ ledger' = ledger
          /\ disk' = disk]_vars

\* the RecordSet file named by the record: Absent when the record names none
\* or the file is not there
TargetFile(e, fs) ==
    IF e.context.json_path = Absent THEN Absent
    ELSE fs[e.context.json_path[1]]

\* C18: when the record is in the ledger but its RecordSet file cannot be
\* located, a resolve with corrected fields raises nothing, stores the status
\* and the corrected fields in the record and changes no RecordSet file.
C18_MissingFileStillResolves ==
    [][(/\ IsResolveStep
        /\ last_op'[1].arg.corrected_data # Absent
        /\ \E i \in MatchingRecords(RecordsOf(ledger), last_op'[1].arg.error_entry) :
              TargetFile(RecordsOf(ledger)[i], disk) = Absent)
       => LET r == last_op'[1].arg
              hits == MatchingRecords(RecordsOf(ledger), r.error_entry)
          IN  /\ last_op'[1].raised = "none"
              /\ disk' = disk
              /\ \A i \in hits :
                    /\ RecordsOf(ledger')[i].correction_status = r.new_status
                    /\ RecordsOf(ledger')[i].corrected = r.corrected_data
      ]_vars

\* C18 witness: the refactored manager has corrected a record whose RecordSet
\* file was merged into a later one and deleted
C18_Witness ==
    /\ last_op # Absent
    /\ last_op[1].op = "resolve"
    /\ last_op[1].arg.manager = "module"
    /\ last_op[1].arg.corrected_data # Absent
    /\ \E i \in 1..Len(RecordsOf(ledger)) :
          /\ ledger[1][i].timestamp = last_op[1].arg.error_entry.timestamp
          /\ ledger[1][i].correction_status = "corrected"
          /\ ledger[1][i].context.json_path # Absent
          /\ disk[ledger[1][i].context.json_path[1]] = Absent

\* C19: a run with error handling that gets past the loading of the
\* configuration ends with a ledger that holds exactly the records emitted in
\* that run, in order, and none of an earlier run.
C19_LedgerOfThisRun ==
    [][(/\ pipeline'.runs = pipeline.runs + 1
        /\ last_run'[1].raised # "ConfigurationMissing"
        /\ pipeline'.error_handling)
       => LET recs == RecordsOf(ledger')
          IN  /\ Len(recs) = Len(pipeline'.calls)
              /\ \A n \in 1..Len(recs) :
                    /\ recs[n].timestamp[1] = clock
                    /\ recs[n].context.image_path = pipeline'.calls[n].image_path
                    /\ recs[n].context.position = pipeline'.calls[n].position
      ]_vars

\* C19 witness: the second run has ended with records of its own while the
\* correction tab still lists a record of the first run
C19_Witness ==
    /\ pipeline.phase = "idle"
    /\ pipeline.runs = 2
    /\ pipeline.error_handling
    /\ last_run[1].raised = "none"
    /\ Len(RecordsOf(ledger)) > 0
    /\ \A n \in 1..Len(RecordsOf(ledger)) : ledger[1][n].timestamp[1] = 2
    /\ \E n \in 1..Len(current_errors) : current_errors[n].timestamp[1] = 1

-----------------------------------------------------------------------------
(* PullStatisticsEngine: history_analyzer.py. A time is the number that     *)
(* orders as its 'YYYY-MM-DD HH:MM:SS' string does.                          *)

\* the game catalogue of the analysed histories: one tier-6 item, one tier-3
\* item and one item whose rarity is none of the tiers 2..6
catalog_data ==
    [item |-> [i1 |-> [display_name |-> "g", rarity |-> 6],
               i2 |-> [display_name |-> "c", rarity |-> 3],
               i3 |-> [display_name |-> "x", rarity |-> 7]]]

\* create_item_mapping: display name -> details of the catalogue item
create_item_mapping(catalog) ==
    [n \in {catalog.item[i].display_name : i \in DOMAIN catalog.item} |->
        LET i == CHOOSE i \in DOMAIN catalog.item :
                    catalog.item[i].display_name = n
        IN  [id |-> i, rarity |-> catalog.item[i].rarity]]

\* item_mapping.get(item_name, {}).get('rarity', 0)
Rarity(item_mapping, item_name) ==
    IF item_name \in DOMAIN item_mapping THEN item_mapping[item_name].rarity
    ELSE 0

\* the pulls a history can hold: a tiered item or the unknown "u", in one of
\* two pools, at one of two times, or the item of rarity 7
Pulls ==
    [item : {"g", "c", "u"}, pool : {"p", "q"}, time : {1, 2}]
        \cup {[item |-> "x", pool |-> "p", time |-> 1]}

Histories == UNION {[1..n -> Pulls] : n \in 0..MaxPulls}

\* list with e put behind every entry that is not later than e
RECURSIVE InsertByTime(_, _)
InsertByTime(list, e) ==
    IF list = <<>> THEN <<e>>
    ELSE IF list[Len(list)].time <= e.time THEN Append(list, e)
    ELSE Append(InsertByTime(SubSeq(list, 1, Len(list) - 1), e),
                list[Len(list)])

\* sorted(data, key=lambda x: x['time']): ascending and stable
RECURSIVE sorted(_)
sorted(data) ==
    IF data = <<>> THEN <<>>
    ELSE InsertByTime(sorted(SubSeq(data, 1, Len(data) - 1)), data[Len(data)])

\* the value the defaultdict makes for a pool it has not seen
NewPoolStats ==
    [total_pulls |-> 0,
     rarity_counts |-> [r \in 2..6 |-> 0],
     pull_history |-> <<>>,
     gold_pulls |-> <<>>,
     last_gold_pull |-> -1,
     current_pity |-> 0,
     items |-> <<>>]

\* variant of AnalyzeStep that records the distance, in the whole list, to
\* the pool's previous tier-6 pull
AnalyzeStep_IndexDistance(stats, i, entry) ==
    LET item_mapping == create_item_mapping(catalog_data)
        rarity == Rarity(item_mapping, entry.item)
        s0 == IF entry.pool \in DOMAIN stats THEN stats[entry.pool]
              ELSE NewPoolStats
        s1 == [s0 EXCEPT
                 !.total_pulls = @ + 1,
                 !.rarity_counts = IF rarity \in DOMAIN @
                                   THEN [@ EXCEPT ![rarity] = @ + 1] ELSE @,
                 !.pull_history =
                     Append(@, [item |-> entry.item, rarity |-> rarity,
                                time |-> entry.time,
                                pull_number |-> s0.total_pulls + 1]),
                 !.items = Append(@, entry.item),
                 !.current_pity = @ + 1]
        s2 == IF rarity = 6
              THEN [s1 EXCEPT !.gold_pulls = Append(@, i - s0.last_gold_pull),
                              !.current_pity = 0,
                              !.last_gold_pull = i]
              ELSE s1
    IN  [p \in DOMAIN stats \cup {entry.pool} |->
            IF p = entry.pool THEN s2 ELSE stats[p]]

\* variant of AnalyzeStep that keeps counting after a tier-6 pull
AnalyzeStep_NoReset(stats, i, entry) ==
    LET item_mapping == create_item_mapping(catalog_data)
        rarity == Rarity(item_mapping, entry.item)
        s0 == IF entry.pool \in DOMAIN stats THEN stats[entry.pool]
              ELSE NewPoolStats
        s1 == [s0 EXCEPT
                 !.total_pulls = @ + 1,
                 !.rarity_counts = IF rarity \in DOMAIN @
                                   THEN [@ EXCEPT ![rarity] = @ + 1] ELSE @,
                 !.pull_history =
                     Append(@, [item |-> entry.item, rarity |-> rarity,
                                time |-> entry.time,
                                pull_number |-> s0.total_pulls + 1]),
                 !.items = Append(@, entry.item),
                 !.current_pity = @ + 1]
        s2 == IF rarity = 6
              THEN [s1 EXCEPT !.gold_pulls = Append(@, s1.current_pity),
                              !.last_gold_pull = i]
              ELSE s1
    IN  [p \in DOMAIN stats \cup {entry.pool} |->
            IF p = entry.pool THEN s2 ELSE stats[p]]

\* one pass of the loop of analyze_gacha_data: entry is gacha_entries[i]
\* (i counts from 0)
AnalyzeStep(stats, i, entry) ==
    LET item_mapping == create_item_mapping(catalog_data)
        rarity == Rarity(item_mapping, entry.item)
        s0 == IF entry.pool \in DOMAIN stats THEN stats[entry.pool]
              ELSE NewPoolStats
        s1 == [s0 EXCEPT
                 !.total_pulls = @ + 1,
                 !.rarity_counts = IF rarity \in DOMAIN @
                                   THEN [@ EXCEPT ![rarity] = @ + 1] ELSE @,
                 !.pull_history =
                     Append(@, [item |-> entry.item, rarity |-> rarity,
                                time |-> entry.time,
                                pull_number |-> s0.total_pulls + 1]),
                 !.items = Append(@, entry.item),
                 !.current_pity = @ + 1]
        s2 == IF rarity = 6
              THEN [s1 EXCEPT !.gold_pulls = Append(@, s1.current_pity),
                              !.current_pity = 0,
                              !.last_gold_pull = i]
              ELSE s1
    IN  [p \in DOMAIN stats \cup {entry.pool} |->
            IF p = entry.pool THEN s2 ELSE stats[p]]

\* variant of Warnings that reports every rarity outside the tiers
Warnings_AlsoUnknown(entry) ==
    LET rarity == Rarity(create_item_mapping(catalog_data), entry.item)
    IN  IF rarity \notin DOMAIN NewPoolStats.rarity_counts
        THEN <<[rarity |-> rarity, item_name |-> entry.item]>>
        ELSE <<>>

\* the lines one pass of the loop prints: a warning for a rarity that is
\* neither a tier nor 0
Warnings(entry) ==
    LET rarity == Rarity(create_item_mapping(catalog_data), entry.item)
    IN  IF rarity \notin DOMAIN NewPoolStats.rarity_counts /\ rarity # 0
        THEN <<[rarity |-> rarity, item_name |-> entry.item]>>
        ELSE <<>>

RECURSIVE SumSeq(_)
SumSeq(list) == IF list = <<>> THEN 0 ELSE Head(list) + SumSeq(Tail(list))

\* the float n / d * 100, kept as the two integers
Percent(n, d) == [num |-> n, den |-> d]

\* calculate_statistics: the figures of every pool seen
calculate_statistics(stats) ==
    [pool_name \in DOMAIN stats |->
        LET s == stats[pool_name]
        IN  [total_pulls |-> s.total_pulls,
             rarity_distribution |-> s.rarity_counts,
             pity_progress |-> s.current_pity,
             gold_pulls_history |-> s.gold_pulls,
             avg_gold_pulls |->
                 IF s.gold_pulls # <<>>
                 THEN Some([sum |-> SumSeq(s.gold_pulls),
                            len |-> Len(s.gold_pulls)])
                 ELSE Absent,
             gold_rate |-> IF s.total_pulls > 0
                           THEN Percent(s.rarity_counts[6], s.total_pulls)
                           ELSE Percent(0, 1),
             rarity_counts |-> s.rarity_counts]]

InitStats ==
    /\ \E data \in Histories : gacha_entries = sorted(data)
    /\ idx = 0
    /\ pool_stats = <<>>
    /\ results = Absent
    /\ printed = <<>>
    /\ IdleParser
    /\ IdleDistance
    /\ IdleMerge
    /\ IdleStore
    /\ IdleNames
    /\ IdleLedger

\* the body of the loop of analyze_gacha_data, for the next entry
AnalyzeEntry ==
    /\ idx < Len(gacha_entries)
    /\ pool_stats' = AnalyzeStep(pool_stats, idx, gacha_entries[idx + 1])
    /\ idx' = idx + 1
    /\ printed' = printed \o Warnings(gacha_entries[idx + 1])
    /\ UNCHANGED <<gacha_entries, results, mergeVars, storeVars, nameVars,
                   ledgerVars, textVars>>

\* calculate_statistics(pool_stats), once the loop is over
CalculateStatistics ==
    /\ idx = Len(gacha_entries)
    /\ results = Absent
    /\ results' = Some(calculate_statistics(pool_stats))
    /\ UNCHANGED <<gacha_entries, idx, pool_stats, printed, mergeVars, storeVars,
                   nameVars, ledgerVars, textVars>>

NextStats == AnalyzeEntry \/ CalculateStatistics

SpecStats == InitStats /\ [][NextStats]_vars

\* the places, among the first n entries, of the pulls of the pool
PoolPlaces(pool, n) == {i \in 1..n : gacha_entries[i].pool = pool}

\* the position of place i within the pool's own sequence of pulls
PositionIn(places, i) == Cardinality({j \in places : j <= i})

\* the positions, within the pool's own sequence, of its tier-6 pulls
HitPositions(pool, n) ==
    {PositionIn(PoolPlaces(pool, n), i) :
        i \in {j \in PoolPlaces(pool, n) :
                 Rarity(create_item_mapping(catalog_data),
                        gacha_entries[j].item) = 6}}

\* the k-th smallest member of a set of numbers; 0 for k = 0
Kth(set, k) ==
    IF k = 0 THEN 0
    ELSE CHOOSE h \in set : Cardinality({x \in set : x <= h}) = k

\* [p1, p2 - p1, ..., pm - p(m-1)]
Intervals(hits) ==
    [k \in 1..Cardinality(hits) |-> Kth(hits, k) - Kth(hits, k - 1)]

\* C20: for every pool, after any number of its pulls, gold_pulls is
\* [p1, p2 - p1, ..., pm - p(m-1)] and current_pity is N - pm, where N counts
\* the pool's pulls so far and p1 < ... < pm are the positions of its tier-6
\* pulls among them (current_pity = N without one); calculate_statistics
\* hands both on unchanged.
C20_PityCounter ==
    /\ DOMAIN pool_stats = {gacha_entries[i].pool : i \in 1..idx}
    /\ \A pool \in DOMAIN pool_stats :
          LET hits == HitPositions(pool, idx)
              N == Cardinality(PoolPlaces(pool, idx))
          IN  /\ pool_stats[pool].gold_pulls = Intervals(hits)
              /\ pool_stats[pool].current_pity = N - Kth(hits, Cardinality(hits))
    /\ results # Absent =>
          /\ DOMAIN results[1] = DOMAIN pool_stats
          /\ \A pool \in DOMAIN pool_stats :
                /\ results[1][pool].gold_pulls_history = pool_stats[pool].gold_pulls
                /\ results[1][pool].pity_progress = pool_stats[pool].current_pity

\* C20 witness: a pool with two tier-6 pulls, a pull of the other pool
\* between them, and one more pull after the second
C20_Witness ==
    /\ results # Absent
    /\ Len(gacha_entries) = 4
    /\ gacha_entries[2].pool = "q"
    /\ "p" \in DOMAIN results[1]
    /\ results[1]["p"].gold_pulls_history = <<1, 1>>
    /\ results[1]["p"].pity_progress = 1

\* the step is one pass of the loop of analyze_gacha_data
IsAnalyzeStep == idx' = idx + 1

\* the statistics of the pool before the first of its pulls
StatsSoFar(stats, pool) ==
    IF pool \in DOMAIN stats THEN stats[pool] ELSE NewPoolStats

\* C21: a pull whose item is not in the catalogue is given rarity 0 and a
\* warning, and counts in the pool's total_pulls and current_pity but in no
\* rarity bucket.
C21_UnknownItemWarned ==
    [][(/\ IsAnalyzeStep
        /\ gacha_entries[idx + 1].item
              \notin {catalog_data.item[i].display_name :
                         i \in DOMAIN catalog_data.item})
       => LET pool == gacha_entries[idx + 1].pool
              before == StatsSoFar(pool_stats, pool)
              after == pool_stats'[pool]
          IN  /\ after.pull_history[Len(after.pull_history)].rarity = 0
              /\ after.total_pulls = before.total_pulls + 1
              /\ after.current_pity = before.current_pity + 1
              /\ after.rarity_counts = before.rarity_counts
              /\ Len(printed') = Len(printed) + 1
      ]_vars

\* the step ends an extraction run
IsRunEnd == pipeline # Absent /\ pipeline'.runs = pipeline.runs + 1

\* C22: a run that finds no configuration or name data, no image, or no
\* entry returns None, lets no exception reach its caller and leaves every
\* RecordSet file as it was.
C22_FailedRunIsClean ==
    [][(/\ IsRunEnd
        /\ last_run'[1].raised \in {"ConfigurationMissing", "NoImages", "NoEntries"})
       => /\ last_run'[1].returned = Absent
          /\ last_run'[1].propagated = "none"
          /\ disk' = disk]_vars

\* C22 witness: a run has found no configuration while the output folder
\* holds the file of an earlier run
C22_Witness ==
    /\ pipeline # Absent
    /\ pipeline.phase = "idle"
    /\ last_run # Absent
    /\ last_run[1].raised = "ConfigurationMissing"
    /\ last_run[1].returned = Absent
    /\ \E f \in DOMAIN disk : disk[f] # Absent

-----------------------------------------------------------------------------
(* TextLineParser: modules/ocr_parser.py, modules/data_processor.py. A      *)
(* string is the sequence of its characters.                                 *)

IsDigit(c) == c \in {"0", "1", "2", "3", "4", "5", "6", "7", "8", "9"}

\* \d{min,max} and a character class [chars], as elements of a pattern
Digits(min, max) == [digit |-> TRUE, chars |-> {}, min |-> min, max |-> max]
OneOf(chars) == [digit |-> FALSE, chars |-> chars, min |-> 1, max |-> 1]

\* \d{4}[-/]\d{1,2}[-/]\d{1,2}
DatePart ==
    <<Digits(4, 4), OneOf({"-", "/"}), Digits(1, 2), OneOf({"-", "/"}),
      Digits(1, 2)>>

\* [ T]\d{1,2}:\d{2}
MinutePart == <<OneOf({" ", "T"}), Digits(1, 2), OneOf({":"}), Digits(2, 2)>>

\* :\d{2}
SecondPart == <<OneOf({":"}), Digits(2, 2)>>

\* variant of DATE_PATTERNS without the date-only pattern
DATE_PATTERNS_NoDateOnly ==
    <<DatePart \o MinutePart \o SecondPart, DatePart \o MinutePart>>

DATE_PATTERNS ==
    <<DatePart \o MinutePart \o SecondPart, DatePart \o MinutePart, DatePart>>

\* the digits of text from position pos on, at most limit of them
RECURSIVE DigitRun(_, _, _)
DigitRun(text, pos, limit) ==
    IF limit = 0 \/ pos > Len(text) \/ ~IsDigit(text[pos]) THEN 0
    ELSE 1 + DigitRun(text, pos + 1, limit - 1)

\* the regex engine on elements k.. of the pattern at position pos: the
\* position after the match, 0 without a match; a digit group takes as many
\* digits as it may and gives back one at a time
RECURSIVE MatchFrom(_, _, _, _)
RECURSIVE TryTake(_, _, _, _, _)
TryTake(pattern, k, text, pos, take) ==
    IF take < pattern[k].min THEN 0
    ELSE LET end == MatchFrom(pattern, k + 1, text, pos + take)
         IN  IF end # 0 THEN end
             ELSE TryTake(pattern, k, text, pos, take - 1)

MatchFrom(pattern, k, text, pos) ==
    IF k > Len(pattern) THEN pos
    ELSE IF pattern[k].digit
    THEN TryTake(pattern, k, text, pos, DigitRun(text, pos, pattern[k].max))
    ELSE IF pos <= Len(text) /\ text[pos] \in pattern[k].chars
    THEN MatchFrom(pattern, k + 1, text, pos + 1)
    ELSE 0

\* re.search(pattern, text) from position pos on: Absent or the leftmost
\* match
RECURSIVE re_search(_, _, _)
re_search(pattern, text, pos) ==
    IF pos > Len(text) THEN Absent
    ELSE LET end == MatchFrom(pattern, 1, text, pos)
         IN  IF end # 0 THEN Some([start |-> pos, end |-> end])
             ELSE re_search(pattern, text, pos + 1)

\* the loop of extract_timestamp_from_line from pattern k on
RECURSIVE FirstMatch(_, _, _)
FirstMatch(patterns, text, k) ==
    IF k > Len(patterns) THEN Absent
    ELSE LET match == re_search(patterns[k], text, 1)
         IN  IF match # Absent
             THEN Some(SubSeq(text, match[1].start, match[1].end - 1))
             ELSE FirstMatch(patterns, text, k + 1)

extract_timestamp_from_line(text) == FirstMatch(DATE_PATTERNS, text, 1)

\* re.search(re.escape(sub), text): where sub first occurs from pos on, 0 if
\* nowhere
RECURSIVE Find(_, _, _)
Find(sub, text, pos) ==
    IF pos + Len(sub) - 1 > Len(text) THEN 0
    ELSE IF SubSeq(text, pos, pos + Len(sub) - 1) = sub THEN pos
    ELSE Find(sub, text, pos + 1)

\* text.strip(chars)
RECURSIVE Strip(_, _)
Strip(text, chars) ==
    IF text = <<>> THEN text
    ELSE IF text[1] \in chars THEN Strip(Tail(text), chars)
    ELSE IF text[Len(text)] \in chars
    THEN Strip(SubSeq(text, 1, Len(text) - 1), chars)
    ELSE text

Whitespace == {" ", "\t"}

\* text.split(sep)
RECURSIVE Split(_, _)
Split(text, sep) ==
    LET at == Find(<<sep>>, text, 1)
    IN  IF at = 0 THEN <<text>>
        ELSE <<SubSeq(text, 1, at - 1)>>
                \o Split(SubSeq(text, at + 1, Len(text)), sep)

\* the whitespace of text from position pos on
RECURSIVE SpaceRun(_, _)
SpaceRun(text, pos) ==
    IF pos > Len(text) \/ text[pos] \notin Whitespace THEN 0
    ELSE 1 + SpaceRun(text, pos + 1)

\* re.split(r"\s{2,}", text), the part in hand being text[from..pos-1]
RECURSIVE SplitWide(_, _, _)
SplitWide(text, from, pos) ==
    IF pos > Len(text) THEN <<SubSeq(text, from, Len(text))>>
    ELSE LET run == SpaceRun(text, pos)
         IN  IF run >= 2
             THEN <<SubSeq(text, from, pos - 1)>>
                     \o SplitWide(text, pos + run, pos + run)
             ELSE SplitWide(text, from, pos + 1)

SeparatorChars == {" ", "|", ",", "-", "\t"}

\* parse_single_line: Absent for None
parse_single_line(text, indices) ==
    LET timestamp == extract_timestamp_from_line(text)
    IN  IF timestamp = Absent THEN Absent
        ELSE LET ts_match == Find(timestamp[1], text, 1)
                 left_part == Strip(SubSeq(text, 1, ts_match - 1), SeparatorChars)
                 bars == Split(left_part, "|")
                 parts == IF \E n \in 1..Len(left_part) : left_part[n] = "|"
                          THEN [n \in 1..Len(bars) |-> Strip(bars[n], Whitespace)]
                          ELSE SplitWide(left_part, 1, 1)
                 item == IF Len(parts) > indices.item
                         THEN Strip(parts[indices.item + 1], Whitespace)
                         ELSE <<>>
                 pool == IF Len(parts) > indices.pool
                         THEN Strip(parts[indices.pool + 1], Whitespace)
                         ELSE <<>>
             IN  IF ts_match = 0 THEN Absent
                 ELSE Some([item |-> item, pool |-> pool, time |-> timestamp[1]])

\* what a line can hold before its date
LeftChars == {"a", " ", "|"}

\* how a line can go on: nothing; "2024-1-2"; "2024/01/02 3:04";
\* "2024-1-2T3:04:05"; "2024-1"; "12024-1-234"; "2024-1-2 3:4";
\* "2024-1-2|2025-1-1 1:01"
Tails ==
    {<<>>,
     <<"2", "0", "2", "4", "-", "1", "-", "2">>,
     <<"2", "0", "2", "4", "/", "0", "1", "/", "0", "2", " ", "3", ":", "0", "4">>,
     <<"2", "0", "2", "4", "-", "1", "-", "2", "T", "3", ":", "0", "4", ":", "0", "5">>,
     <<"2", "0", "2", "4", "-", "1">>,
     <<"1", "2", "0", "2", "4", "-", "1", "-", "2", "3", "4">>,
     <<"2", "0", "2", "4", "-", "1", "-", "2", " ", "3", ":", "4">>,
     <<"2", "0", "2", "4", "-", "1", "-", "2", "|", "2", "0", "2", "5", "-", "1", "-", "1", " ", "1", ":", "0", "1">>}

Lines == {left \o tail : left \in SeqsUpTo(LeftChars, MaxLeft), tail \in Tails}

\* the column_indices of a game's table_area
ColumnIndices ==
    {[item |-> 0, pool |-> 1], [item |-> 1, pool |-> 2], [item |-> 2, pool |-> 0]}

InitParser ==
    /\ line \in Lines
    /\ column_indices \in {Some(c) : c \in ColumnIndices}
    /\ parsed = Absent
    /\ IdleDistance
    /\ IdleMerge
    /\ IdleStore
    /\ IdleNames
    /\ IdleLedger
    /\ IdleStats

\* parse_single_line(line, column_indices)
ParseLine ==
    /\ parsed = Absent
    /\ parsed' = Some(parse_single_line(line, column_indices[1]))
    /\ UNCHANGED <<line, column_indices, distanceVars, mergeVars, storeVars,
                   nameVars, ledgerVars, statsVars>>

NextParser == ParseLine

SpecParser == InitParser /\ [][NextParser]_vars

\* text is digits only
AllDigits(text) == \A n \in 1..Len(text) : IsDigit(text[n])

\* text reads as year, separator, month, separator, day
IsDateText(text) ==
    \E m \in 1..2, d \in 1..2 :
        /\ Len(text) = 6 + m + d
        /\ AllDigits(SubSeq(text, 1, 4))
        /\ text[5] \in {"-", "/"}
        /\ AllDigits(SubSeq(text, 6, 5 + m))
        /\ text[6 + m] \in {"-", "/"}
        /\ AllDigits(SubSeq(text, 7 + m, 6 + m + d))

\* text reads as blank or T, hour, colon, two digits and, with seconds, a
\* colon and two digits more
IsClockText(text, seconds) ==
    \E h \in 1..2 :
        /\ Len(text) = 4 + h + (IF seconds THEN 3 ELSE 0)
        /\ text[1] \in {" ", "T"}
        /\ AllDigits(SubSeq(text, 2, 1 + h))
        /\ text[2 + h] = ":"
        /\ AllDigits(SubSeq(text, 3 + h, 4 + h))
        /\ seconds => /\ text[5 + h] = ":"
                      /\ AllDigits(SubSeq(text, 6 + h, 7 + h))

\* text is a full datetime, a datetime without seconds or a date
IsTimestamp(text) ==
    \E k \in 1..Len(text) :
        /\ IsDateText(SubSeq(text, 1, k))
        /\ \/ k = Len(text)
           \/ IsClockText(SubSeq(text, k + 1, Len(text)), FALSE)
           \/ IsClockText(SubSeq(text, k + 1, Len(text)), TRUE)

ContainsTimestamp(text) ==
    \E i \in 1..Len(text), j \in 1..Len(text) :
        i <= j /\ IsTimestamp(SubSeq(text, i, j))

\* text without the characters of chars at its two ends
Core(text, chars) ==
    LET inner == {n \in 1..Len(text) : text[n] \notin chars}
    IN  IF inner = {} THEN <<>>
        ELSE SubSeq(text, Kth(inner, 1), Kth(inner, Cardinality(inner)))

\* the tokens of the text before the date: what lies between the bars, if
\* there is a bar, and otherwise what lies between the runs of two or more
\* blanks
TokensOf(before) ==
    LET trimmed == Core(before, SeparatorChars)
        bars == {n \in 1..Len(trimmed) : trimmed[n] = "|"}
        wide == {n \in 1..Len(trimmed) :
                    /\ trimmed[n] \in Whitespace
                    /\ \/ n > 1 /\ trimmed[n - 1] \in Whitespace
                       \/ n < Len(trimmed) /\ trimmed[n + 1] \in Whitespace}
        starts == {n \in 1..Len(trimmed) :
                     n \notin wide /\ (n = 1 \/ n - 1 \in wide)}
        ends == {n \in 1..Len(trimmed) :
                   n \notin wide /\ (n = Len(trimmed) \/ n + 1 \in wide)}
    IN  IF bars # {}
        THEN [k \in 1..(Cardinality(bars) + 1) |->
                Core(SubSeq(trimmed, Kth(bars, k - 1) + 1,
                            (IF k <= Cardinality(bars) THEN Kth(bars, k)
                             ELSE Len(trimmed) + 1) - 1),
                     Whitespace)]
        ELSE IF trimmed = <<>> THEN << <<>> >>
        ELSE [k \in 1..Cardinality(starts) |->
                SubSeq(trimmed, Kth(starts, k), Kth(ends, k))]

\* the token of column n (counted from 0), empty when there is none
FieldAt(tokens, n) == IF n < Len(tokens) THEN tokens[n + 1] ELSE <<>>

\* C23: parse_single_line returns None exactly when no part of the line is a
\* timestamp, so for the empty line too; otherwise the entry holds a
\* timestamp of the line and, as item and pool, the tokens of the text before
\* it at the configured columns, the empty string for a column the tokens do
\* not reach.
C23_ParserEdgeCases ==
    parsed # Absent =>
        LET r == parsed[1]
            c == column_indices[1]
        IN  /\ r = Absent <=> ~ContainsTimestamp(line)
            /\ line = <<>> => r = Absent
            /\ r # Absent =>
                  /\ IsTimestamp(r[1].time)
                  /\ \E i \in 1..Len(line) :
                        /\ SubSeq(line, i, i + Len(r[1].time) - 1) = r[1].time
                        /\ r[1].item = FieldAt(TokensOf(SubSeq(line, 1, i - 1)), c.item)
                        /\ r[1].pool = FieldAt(TokensOf(SubSeq(line, 1, i - 1)), c.pool)

\* C23 witness: "a|a2024-1-2" with item in column 1 and pool in column 2:
\* there are two tokens, so the pool is the empty string
C23_Witness ==
    /\ line = <<"a", "|", "a", "2", "0", "2", "4", "-", "1", "-", "2">>
    /\ column_indices = Some([item |-> 1, pool |-> 2])
    /\ parsed = Some(Some([item |-> <<"a">>, pool |-> <<>>,
                           time |-> <<"2", "0", "2", "4", "-", "1", "-", "2">>]))

-----------------------------------------------------------------------------
(* calculate_edit_distance on its own: data_processor.py lines 62-81 *)

InitDistance ==
    /\ word1 \in Names
    /\ word2 \in Names
    /\ distance = Absent
    /\ IdleParser
    /\ IdleMerge
    /\ IdleStore
    /\ IdleNames
    /\ IdleLedger
    /\ IdleStats

\* calculate_edit_distance(word1, word2) and calculate_edit_distance(word2,
\* word1)
MeasureDistance ==
    /\ distance = Absent
    /\ distance' = Some([forth |-> calculate_edit_distance(word1, word2),
                         back |-> calculate_edit_distance(word2, word1)])
    /\ UNCHANGED <<word1, word2, parserVars, mergeVars, storeVars, nameVars,
                   ledgerVars, statsVars>>

NextDistance == MeasureDistance

SpecDistance == InitDistance /\ [][NextDistance]_vars

\* C24: calculate_edit_distance is the Levenshtein distance: it is the value
\* of the recurrence over the whole matrix, the same in both directions, 0
\* exactly for equal strings and the length of the other string when one is
\* empty.
C24_IsLevenshtein ==
    distance # Absent =>
        /\ distance[1].forth = Levenshtein(word1, word2)
        /\ distance[1].back = distance[1].forth
        /\ distance[1].forth = 0 <=> word1 = word2
        /\ word1 = <<>> => distance[1].forth = Len(word2)
        /\ word2 = <<>> => distance[1].forth = Len(word1)

\* C24 witness: the shorter string comes first and the strings are two
\* edits apart
C24_Witness ==
    /\ distance # Absent
    /\ word1 # <<>>
    /\ Len(word1) < Len(word2)
    /\ distance[1].forth = 2

-----------------------------------------------------------------------------
(* Further properties of save-and-merge, checked under Spec *)

\* every entry of the list part occurs in the list whole
OccursIn(part, whole) ==
    \A n \in 1..Len(part) : \E k \in 1..Len(whole) : whole[k] = part[n]

\* C25: when save_and_merge_file has merged the latest compatible file into
\* the new file and deleted it, every entry of the deleted file and every
\* entry of the new export occurs in the merged file.
C25_NoHistoryLost ==
    [][(/\ clock' = clock + 1
        /\ last_run'[1].latest # Absent
        /\ last_run'[1].raised = "none")
       => LET merged == disk'[last_run'[1].returned][1].data
          IN  /\ disk'[last_run'[1].latest[1]] = Absent
              /\ OccursIn(disk[last_run'[1].latest[1]][1].data, merged)
              /\ OccursIn(last_run'[1].export.data, merged)]_vars

\* C30: in every RecordSet file of the folder, info.total_entries is the
\* number of entries of data, for a fresh export and after merges.
C30_TotalEntriesIsLength ==
    \A f \in DOMAIN disk :
        disk[f] # Absent =>
            disk[f][1].info.total_entries = Len(disk[f][1].data)

-----------------------------------------------------------------------------
(* Further properties of the ledger, checked under SpecLedger *)

\* C26: a resolve with corrected fields that reaches the RecordSet file
\* overwrites one entry and no more: entries with another triple stay as
\* they were, and of the entries that carry the record's original triple one
\* takes the corrected fields while the others stay as they were.
C26_OneEntryPerCorrection ==
    [][(/\ IsResolveStep
        /\ last_op'[1].arg.manager = "module"
        /\ last_op'[1].arg.fault = "none"
        /\ last_op'[1].arg.corrected_data # Absent
        /\ \E i \in MatchingRecords(RecordsOf(ledger), last_op'[1].arg.error_entry) :
              TargetFile(RecordsOf(ledger)[i], disk) # Absent)
       => LET r == last_op'[1].arg.error_entry
              c == last_op'[1].arg.corrected_data[1]
              i == CHOOSE h \in MatchingRecords(RecordsOf(ledger), r) : TRUE
              path == RecordsOf(ledger)[i].context.json_path[1]
              before == disk[path][1].data
              after == disk'[path][1].data
              same == {n \in 1..Len(before) : HasTriple(before[n], r.original)}
          IN  /\ Len(after) = Len(before)
              /\ \A n \in 1..Len(before) :
                    n \notin same => after[n] = before[n]
              /\ Cardinality({n \in same : after[n] # before[n]}) <= 1
              /\ same # {} =>
                    \E n \in same :
                        after[n] = [item |-> c.item, pool |-> c.pool,
                                    time |-> c.time, is_valid |-> TRUE]
              /\ \A f \in DOMAIN disk : f # path => disk'[f] = disk[f]
      ]_vars

\* C27: when the record is in the ledger and its RecordSet file is there but
\* cannot be decoded or written, a resolve with corrected fields still stores
\* the status and the corrected fields in the ledger file, and the record is
\* no longer pending.
C27_DamagedFileStillResolves ==
    [][(/\ IsResolveStep
        /\ last_op'[1].arg.manager = "module"
        /\ last_op'[1].arg.fault # "none"
        /\ last_op'[1].arg.corrected_data # Absent)
       => LET r == last_op'[1].arg
              hits == MatchingRecords(RecordsOf(ledger), r.error_entry)
          IN  /\ last_op'[1].raised = "none"
              /\ \A i \in hits :
                    /\ RecordsOf(ledger')[i].correction_status = r.new_status
                    /\ RecordsOf(ledger')[i].corrected = r.corrected_data
              /\ \A n \in 1..Len(get_pending_errors(ledger')) :
                    get_pending_errors(ledger')[n].timestamp
                        # r.error_entry.timestamp
      ]_vars

-----------------------------------------------------------------------------
(* Further properties of the statistics, checked under SpecStats *)

\* C28: after every pass of the loop, for every pool, the recorded intervals
\* and current_pity add up to total_pulls and there are as many intervals as
\* tier-6 pulls counted; the pass changes the statistics of the pull's pool
\* only.
C28_PityAccounting ==
    [][IsAnalyzeStep =>
        LET pool == gacha_entries[idx + 1].pool
        IN  /\ DOMAIN pool_stats' = DOMAIN pool_stats \cup {pool}
            /\ \A p \in DOMAIN pool_stats' :
                  /\ SumSeq(pool_stats'[p].gold_pulls)
                        + pool_stats'[p].current_pity
                     = pool_stats'[p].total_pulls
                  /\ Len(pool_stats'[p].gold_pulls)
                     = pool_stats'[p].rarity_counts[6]
            /\ \A p \in DOMAIN pool_stats :
                  p # pool => pool_stats'[p] = pool_stats[p]
      ]_vars

\* C28 witness: both pools have been pulled from, one of them has two tier-6
\* pulls in a row and one more pull after them
C28_Witness ==
    /\ idx = MaxPulls
    /\ DOMAIN pool_stats = {"p", "q"}
    /\ \E p \in DOMAIN pool_stats :
          /\ pool_stats[p].gold_pulls = <<1, 1>>
          /\ pool_stats[p].current_pity = 1
          /\ pool_stats[p].total_pulls = 3

\* the loop of analyze_gacha_data from entry i on (i counts from 0)
RECURSIVE AnalyzeFrom(_, _, _)
AnalyzeFrom(stats, entries, i) ==
    IF i >= Len(entries) THEN stats
    ELSE AnalyzeFrom(AnalyzeStep(stats, i, entries[i + 1]), entries, i + 1)

\* analyze_gacha_data: the pool statistics of a history, whatever its order
analyze_gacha_data(data) == AnalyzeFrom(<<>>, sorted(data), 0)

\* the lists that hold the same entries as data, each as often
Orderings(data) ==
    {[i \in 1..Len(data) |-> data[f[i]]] : f \in Permutations(1..Len(data))}

\* C29: the intervals and the pity counter of every pool are the same for
\* every ordering of the analysed history, entries of one pool with the same
\* time and a tier-6 pull among them included.
C29_OrderIndependent ==
    idx = Len(gacha_entries) =>
        \A data \in Orderings(gacha_entries) :
            LET other == analyze_gacha_data(data)
            IN  /\ DOMAIN other = DOMAIN pool_stats
                /\ \A pool \in DOMAIN pool_stats :
                      /\ other[pool].gold_pulls = pool_stats[pool].gold_pulls
                      /\ other[pool].current_pity
                            = pool_stats[pool].current_pity

=============================================================================
